---- MODULE Spec2Model ----
(***************************************************************************)
(* Model of the literature viewer of the ReportChat component              *)
(* (src/unnamed/part_000): the loaded reports, the literature file, the    *)
(* search term, the page size, the found line and the displayed window,    *)
(* and the event handlers that change them; of its chat; of the flashcard  *)
(* blocks and file batches (src/unnamed/part_001); and of the FEN board    *)
(* (src/loadfromfen_build_textarea.js).                                    *)
(*                                                                         *)
(* Texts are sequences of one-character strings.  A value that may be      *)
(* null in the source is null (the empty tuple) or <<v>>.                  *)
(***************************************************************************)
EXTENDS Integers, Sequences, FiniteSets, TLC

VARIABLES
    loadedReports,            \* {filename: content}
    literatureFile,           \* null or <<filename>>
    literatureSearchTerm,     \* text of the search input
    literatureNumLines,       \* number stored by the "# of lines" input
    literatureFoundLine,      \* null or <<1-based line number>>
    literatureDisplayContent, \* null or <<text shown>>
    isLoadingPreloaded,       \* a preloaded-folder fetch is in flight
    uploads,                  \* handleFolderSelect calls suspended at an await
    op,                       \* the handler that ran last
    alert,                    \* what that handler reported: its alert, or NoAlert
    returned,                 \* what searchLiterature, scanForBlocks or onDrop
                              \* returned to that handler: null when it called none
    \* the chat of ReportChat
    aiProvider,               \* "ChatGPT" or "Anthropic"
    apiKey,                   \* text of the API key input
    useSharedKey,             \* the shared key is used through the backend
    selectedRole,             \* key of the role
    messages,                 \* [{role, content}]
    inputValue,               \* text of the chat input
    isLoading,                \* a chat request is in flight
    requests,                 \* sendMessage calls suspended at their fetch
    \* the flashcards (src/unnamed/part_001)
    blockSourceInput,         \* text of Textarea 2
    flashcardBlocks,          \* window.flashcardBlocks: [{id, notes, content}]
    currentBlockIndex,        \* window.currentBlockIndex
    pasteInput,               \* text of Textarea 1
    blockCounter,             \* #blockCounter: null as the page has it, or
                              \* <<<<a, b>>>> for the text 'a/b'
    blockTitle,               \* #blockTitle: null as the page has it, or <<text>>
    currentSetName,           \* #currentSetName: null as the page has it, or <<text>>
    currentFlashcards,        \* [{front, back}]
    isReversed,               \* fronts and backs are swapped
    timers,                   \* generateFromPaste timeouts that have not fired
    trail,                    \* null, or the last block navigation: what was
                              \* called, with what, the index before it, and the
                              \* run of nextBlock calls that it ends
    tempFlashcardDatabase,    \* window.tempFlashcardDatabase: {key: {content, filename}}
    dropdown,                 \* keys of the items of #flashcardDropdown
    batches,                  \* handleFiles calls: their files, the reads that
                              \* have not ended, and what their callbacks did
    \* the FEN board (src/loadfromfen_build_textarea.js)
    board,                    \* the placement that the Chessboard.js board shows
    chess,                    \* window.chess: the position and the moves of chess.js
    startingFen,              \* window.startingFen: null or <<FEN>>
    myTextArea,               \* text of the input textarea
    myTextArea2,              \* text of the current-position textarea
    moveHistoryTextArea,      \* text of the PGN textarea
    lastLoad,                 \* null after a reset and before any load, or the
                              \* <<FEN>> that the last Load FEN took from its input
    played                    \* the moves that chess.js accepted since then

vars == <<loadedReports, literatureFile, literatureSearchTerm, literatureNumLines,
          literatureFoundLine, literatureDisplayContent, isLoadingPreloaded,
          uploads, op, alert, returned,
          aiProvider, apiKey, useSharedKey, selectedRole, messages, inputValue,
          isLoading, requests,
          blockSourceInput, flashcardBlocks, currentBlockIndex, pasteInput,
          blockCounter, blockTitle, currentSetName, currentFlashcards, isReversed,
          timers, trail, tempFlashcardDatabase, dropdown, batches,
          board, chess, startingFen, myTextArea, myTextArea2, moveHistoryTextArea,
          lastLoad, played>>

litVars == <<literatureFoundLine, literatureDisplayContent>>

\* the state of the reports and of the literature viewer
reportVars == <<loadedReports, literatureFile, literatureSearchTerm, literatureNumLines,
                literatureFoundLine, literatureDisplayContent, isLoadingPreloaded,
                uploads>>

\* the state of the chat
chatVars == <<aiProvider, apiKey, useSharedKey, selectedRole, messages, inputValue,
              isLoading, requests>>

\* the state of the flashcards
cardVars == <<blockSourceInput, flashcardBlocks, currentBlockIndex, pasteInput,
              blockCounter, blockTitle, currentSetName, currentFlashcards, isReversed,
              timers, trail, tempFlashcardDatabase, dropdown, batches>>

\* the state of the FEN board
chessVars == <<board, chess, startingFen, myTextArea, myTextArea2, moveHistoryTextArea,
               lastLoad, played>>

\* what the handlers of the reports and of the literature viewer leave alone
otherThanReports == <<chatVars, cardVars, chessVars>>

-----------------------------------------------------------------------------
(* Bounds of the model *)

\* handleFolderSelect calls that may be suspended at the same time
MaxUploads == 1

-----------------------------------------------------------------------------
(* Values *)

null == <<>>

Some(v) == <<v>>

Val(o) == o[1]

\* Folders the user may pick, as the names of their files; only the .txt and
\* .md files are read.
Folders == { {"a.txt", "b.md", "c.png"}, {"c.png"} }

\* file.name.toLowerCase().endsWith('.txt') || ...endsWith('.md')
isTextFile(name) == name \in {"a.txt", "b.md"}

\* textFiles.sort(localeCompare): the order of the readable names
NameOrder == <<"a.txt", "b.md">>

\* Texts a file may hold: nothing, and two texts over the chat limit, of four
\* lines and of two.
Docs == { <<>>,
          <<"a", "b", "\n", "A", "\n", "B", "\n", "a">>,
          <<"a", " ", "b", "\n", "a">> }

\* Texts typed into the search input.
Terms == { <<" ">>, <<" ", "B">> }

\* Texts typed into the "# of lines" input.
NumTexts == { <<"-", "1">>, <<"0">>, <<"2">>, <<>> }

\* MAX_CHARS_FOR_CHAT, scaled from 100000 characters to the size of Docs
MAX_CHARS_FOR_CHAT == 3

\* the set the page starts with: its file name, and its content cut to its
\* first card
InitialDatabase ==
    [key \in {<<"default_computer_specs">>} |->
        [content |-> <<"r", ",", "R">>, filename |-> "default_computer_specs.txt"]]

\* piece placements, each kept as one element of a text: the start, after
\* 1. e4, after 1. e4 e5, after 1... e5 alone, the start written with the
\* empty third rank as '44', and a word that is no placement
StartPlacement == "rnbqkbnr/pppppppp/8/8/8/8/PPPPPPPP/RNBQKBNR"
AfterE4 == "rnbqkbnr/pppppppp/8/8/4P3/8/PPPP1PPP/RNBQKBNR"
AfterE4E5 == "rnbqkbnr/pppp1ppp/8/4p3/4P3/8/PPPP1PPP/RNBQKBNR"
AfterE5 == "rnbqkbnr/pppp1ppp/8/4p3/8/8/PPPPPPPP/RNBQKBNR"
StartWith44 == "rnbqkbnr/pppppppp/44/8/8/8/PPPPPPPP/RNBQKBNR"
NoPlacement == "hello"

\* 'rnbqkbnr/pppppppp/8/8/8/8/PPPPPPPP/RNBQKBNR w KQkq - 0 1'
StandardFen == <<StartPlacement, " ", "w", " ", "KQkq", " ", "-", " ", "0", " ", "1">>

\* new Chess()
NewChess ==
    [placement |-> StartPlacement, turn |-> "w", castling |-> "KQkq", ep |-> "-",
     half |-> "0", full |-> "1", history |-> <<>>, first |-> <<"w", "1">>,
     setup |-> null]

-----------------------------------------------------------------------------
(* Alerts *)

NoAlert == "none"
NoDocument == "No literature file selected"
EmptyTerm == "Please enter a search term"
NotFoundAtAll == "not found in the text"
NoMoreOccurrences == "No more occurrences found. Reached end of text."
NoPrevOccurrences == "No previous occurrences found. Reached beginning of text."
NoCursor == "Please search for something first"
EndOfText == "Reached end of text."
NoTextFiles == "No .txt or .md files found in selected folder"
LoadError == "Error loading folder"
\* lines[i] is undefined and lines[i].toLowerCase() throws
TypeErrorThrown == "TypeError: Cannot read properties of undefined"
EmptyTextarea2 == "Textarea 2 is empty. Paste text with [1], [2] block markers first."
NoBlocksFound == "No blocks found. Make sure text has [1], [2], etc. markers."
ClipboardEmpty == "Clipboard is empty. Please copy some block text first."
ClipboardDenied == "Unable to access clipboard."
NoPasteContent == "Please paste some flashcard content first"
NoValidCards == "No valid flashcards found."
NoTextFilesSelected == "Please select text files only (.txt, .csv, or .tsv)"
NoSetLoaded == "Please load a flashcard set first"
TextareaEmpty == "Textarea is empty"

-----------------------------------------------------------------------------
(* String functions of the host language *)

Min(S) == CHOOSE x \in S : \A y \in S : x <= y

Max(S) == CHOOSE x \in S : \A y \in S : x >= y

lowerChar(c) == IF c = "A" THEN "a" ELSE IF c = "B" THEN "b" ELSE c

toLowerCase(s) == [i \in 1..Len(s) |-> lowerChar(s[i])]

isSpace(c) == c \in {" ", "\n"}

trim(s) ==
    LET keep == {i \in 1..Len(s) : ~isSpace(s[i])}
    IN  IF keep = {} THEN <<>> ELSE SubSeq(s, Min(keep), Max(keep))

\* line.includes(t)
includes(line, t) ==
    \E i \in 0..(Len(line) - Len(t)) : SubSeq(line, i + 1, i + Len(t)) = t

RECURSIVE split(_)
\* content.split('\n')
split(s) ==
    LET nl == {i \in 1..Len(s) : s[i] = "\n"}
    IN  IF nl = {} THEN <<s>>
        ELSE <<SubSeq(s, 1, Min(nl) - 1)>> \o split(SubSeq(s, Min(nl) + 1, Len(s)))

RECURSIVE join(_)
\* lines.join('\n')
join(ls) ==
    IF Len(ls) = 0 THEN <<>>
    ELSE IF Len(ls) = 1 THEN ls[1]
    ELSE ls[1] \o <<"\n">> \o join(Tail(ls))

\* lines.slice(from, to), both 0-based, to exclusive
slice(ls, from, to) == SubSeq(ls, from + 1, IF to < Len(ls) THEN to ELSE Len(ls))

digit(c) == CASE c = "0" -> 0 [] c = "1" -> 1 [] c = "2" -> 2 [] c = "5" -> 5

RECURSIVE digits(_)
digits(s) == IF Len(s) = 0 THEN 0 ELSE 10 * digits(SubSeq(s, 1, Len(s) - 1)) + digit(s[Len(s)])

\* parseInt(text): null stands for NaN
parseInt(s) ==
    IF Len(s) = 0 THEN null
    ELSE IF s[1] = "-" THEN (IF Len(s) = 1 THEN null ELSE Some(0 - digits(Tail(s))))
    ELSE Some(digits(s))

\* Math.max(1, Math.min(5000, literatureNumLines))
numLinesOf(n) == IF n > 5000 THEN 5000 ELSE IF n < 1 THEN 1 ELSE n

-----------------------------------------------------------------------------
(* Initial state: the useState() defaults *)

EmptyReports == [f \in {} |-> <<>>]

Init ==
    /\ loadedReports = EmptyReports
    /\ literatureFile = null
    /\ literatureSearchTerm = <<>>
    /\ literatureNumLines = 500
    /\ literatureFoundLine = null
    /\ literatureDisplayContent = null
    /\ isLoadingPreloaded = FALSE
    /\ uploads = <<>>
    /\ op = "mount"
    /\ alert = NoAlert
    /\ returned = null
    /\ aiProvider = "ChatGPT"
    /\ apiKey = ""
    /\ useSharedKey = FALSE
    /\ selectedRole = "default"
    /\ messages = <<>>
    /\ inputValue = <<>>
    /\ isLoading = FALSE
    /\ requests = <<>>
    /\ blockSourceInput = <<>>
    /\ flashcardBlocks = <<>>
    /\ currentBlockIndex = 0
    /\ pasteInput = <<>>
    /\ blockCounter = null
    /\ blockTitle = null
    /\ currentSetName = null
    /\ currentFlashcards = <<>>
    /\ isReversed = FALSE
    /\ timers = 0
    /\ trail = null
    /\ tempFlashcardDatabase = InitialDatabase
    /\ dropdown = DOMAIN InitialDatabase
    /\ batches = <<>>
    /\ board = StartPlacement
    /\ chess = NewChess
    /\ startingFen = null
    /\ myTextArea = <<>>
    /\ myTextArea2 = <<>>
    /\ moveHistoryTextArea = <<>>
    /\ lastLoad = null
    /\ played = <<>>

-----------------------------------------------------------------------------
(* Helpers of the handlers *)

\* !literatureFile || !loadedReports[literatureFile]: a missing entry and an
\* empty text are both falsy
noLiteratureFile ==
    \/ literatureFile = null
    \/ Val(literatureFile) \notin DOMAIN loadedReports
    \/ loadedReports[Val(literatureFile)] = <<>>

\* truthiness of literatureFoundLine: null and 0 are falsy
hasFoundLine == literatureFoundLine # null /\ Val(literatureFoundLine) # 0

RECURSIVE scanForwardCaseSensitive(_, _, _)
\* scanForward, were the line not lowercased before the comparison
scanForwardCaseSensitive(lines, searchLower, i) ==
    IF i >= Len(lines) THEN -1
    ELSE IF includes(lines[i + 1], searchLower) THEN i
    ELSE scanForwardCaseSensitive(lines, searchLower, i + 1)

RECURSIVE scanForward(_, _, _)
\* for (let i = startFromLine; i < lines.length; i++): index of the first hit, or -1
scanForward(lines, searchLower, i) ==
    IF i >= Len(lines) THEN -1
    ELSE IF includes(toLowerCase(lines[i + 1]), searchLower) THEN i
    ELSE scanForward(lines, searchLower, i + 1)

RECURSIVE scanBackward(_, _, _)
\* for (let i = startLine; i >= 0; i--): index of the first hit, -1 when there
\* is none, -2 when lines[i] is undefined and the call throws
scanBackward(lines, searchLower, i) ==
    IF i < 0 THEN -1
    ELSE IF i >= Len(lines) THEN -2
    ELSE IF includes(toLowerCase(lines[i + 1]), searchLower) THEN i
    ELSE scanBackward(lines, searchLower, i - 1)

\* showFrom, were the slice to end one line later
showFromInclusive(lines, index) ==
    LET numLines == numLinesOf(literatureNumLines)
        extractedLines == slice(lines, index, index + numLines + 1)
    IN  /\ literatureFoundLine' = Some(index + 1)
        /\ literatureDisplayContent' = Some(join(extractedLines))

\* setLiteratureFoundLine(index + 1); setLiteratureDisplayContent(slice.join('\n'))
showFrom(lines, index) ==
    LET numLines == numLinesOf(literatureNumLines)
        extractedLines == slice(lines, index, index + numLines)
    IN  /\ literatureFoundLine' = Some(index + 1)
        /\ literatureDisplayContent' = Some(join(extractedLines))

\* the entries over MAX_CHARS_FOR_CHAT, sorted by size descending (a stable
\* sort: equal sizes keep the order of insertion); null when there is none
largestFile(newReports, order) ==
    LET large == {i \in 1..Len(order) :
                     /\ order[i] \in DOMAIN newReports
                     /\ Len(newReports[order[i]]) > MAX_CHARS_FOR_CHAT}
        best == {i \in large : \A j \in large :
                     Len(newReports[order[i]]) >= Len(newReports[order[j]])}
    IN  IF large = {} THEN null ELSE Some(order[Min(best)])

-----------------------------------------------------------------------------
(* Literature handlers *)

\* searchLiterature, were a failed search to clear the found line and the window
searchLiteratureClearing(startFromLine) ==
    IF noLiteratureFile
    THEN alert' = NoDocument /\ returned' = Some(-1) /\ UNCHANGED litVars
    ELSE IF trim(literatureSearchTerm) = <<>>
    THEN alert' = EmptyTerm /\ returned' = Some(-1) /\ UNCHANGED litVars
    ELSE LET lines == split(loadedReports[Val(literatureFile)])
             searchLower == trim(toLowerCase(literatureSearchTerm))
             foundLineIndex == scanForward(lines, searchLower, startFromLine)
         IN  IF foundLineIndex = -1
             THEN /\ returned' = Some(-1)
                  /\ alert' = (IF startFromLine = 0 THEN NotFoundAtAll
                                                    ELSE NoMoreOccurrences)
                  /\ literatureFoundLine' = null
                  /\ literatureDisplayContent' = null
             ELSE /\ showFrom(lines, foundLineIndex)
                  /\ alert' = NoAlert
                  /\ returned' = Some(foundLineIndex)

searchLiterature(startFromLine) ==
    IF noLiteratureFile
    THEN alert' = NoDocument /\ returned' = Some(-1) /\ UNCHANGED litVars
    ELSE IF trim(literatureSearchTerm) = <<>>
    THEN alert' = EmptyTerm /\ returned' = Some(-1) /\ UNCHANGED litVars
    ELSE LET lines == split(loadedReports[Val(literatureFile)])
             searchLower == trim(toLowerCase(literatureSearchTerm))
             foundLineIndex == scanForward(lines, searchLower, startFromLine)
         IN  IF foundLineIndex = -1
             THEN /\ returned' = Some(-1)
                  /\ alert' = (IF startFromLine = 0 THEN NotFoundAtAll
                                                    ELSE NoMoreOccurrences)
                  /\ UNCHANGED litVars
             ELSE /\ showFrom(lines, foundLineIndex)
                  /\ alert' = NoAlert
                  /\ returned' = Some(foundLineIndex)

\* the Go button and the Enter key
goSearch ==
    /\ searchLiterature(0)
    /\ op' = "searchLiterature"
    /\ UNCHANGED <<loadedReports, literatureFile, literatureSearchTerm,
                   literatureNumLines, isLoadingPreloaded, uploads>>

\* findNextLiterature, were the search to start at the found line itself
findNextLiteratureFromCursor ==
    /\ IF ~hasFoundLine
       THEN searchLiterature(0)
       ELSE searchLiterature(Val(literatureFoundLine) - 1)
    /\ op' = "findNextLiterature"
    /\ UNCHANGED <<loadedReports, literatureFile, literatureSearchTerm,
                   literatureNumLines, isLoadingPreloaded, uploads>>

findNextLiterature ==
    /\ IF ~hasFoundLine
       THEN searchLiterature(0)
       ELSE searchLiterature(Val(literatureFoundLine))
    /\ op' = "findNextLiterature"
    /\ UNCHANGED <<loadedReports, literatureFile, literatureSearchTerm,
                   literatureNumLines, isLoadingPreloaded, uploads>>

\* findPrevLiterature, were the scan to start at the found line itself
findPrevLiteratureFromCursor ==
    /\ IF noLiteratureFile
       THEN alert' = NoDocument /\ UNCHANGED litVars
       ELSE IF trim(literatureSearchTerm) = <<>>
       THEN alert' = EmptyTerm /\ UNCHANGED litVars
       ELSE LET lines == split(loadedReports[Val(literatureFile)])
                searchLower == trim(toLowerCase(literatureSearchTerm))
                startLine == IF hasFoundLine THEN Val(literatureFoundLine) - 1
                                             ELSE Len(lines) - 1
                foundLineIndex == scanBackward(lines, searchLower, startLine)
            IN  IF foundLineIndex = -2
                THEN alert' = TypeErrorThrown /\ UNCHANGED litVars
                ELSE IF foundLineIndex = -1
                THEN alert' = NoPrevOccurrences /\ UNCHANGED litVars
                ELSE /\ showFrom(lines, foundLineIndex)
                     /\ alert' = NoAlert
    /\ op' = "findPrevLiterature"
    /\ returned' = null
    /\ UNCHANGED <<loadedReports, literatureFile, literatureSearchTerm,
                   literatureNumLines, isLoadingPreloaded, uploads>>

findPrevLiterature ==
    /\ IF noLiteratureFile
       THEN alert' = NoDocument /\ UNCHANGED litVars
       ELSE IF trim(literatureSearchTerm) = <<>>
       THEN alert' = EmptyTerm /\ UNCHANGED litVars
       ELSE LET lines == split(loadedReports[Val(literatureFile)])
                searchLower == trim(toLowerCase(literatureSearchTerm))
                startLine == IF hasFoundLine THEN Val(literatureFoundLine) - 2
                                             ELSE Len(lines) - 1
                foundLineIndex == scanBackward(lines, searchLower, startLine)
            IN  IF foundLineIndex = -2
                THEN alert' = TypeErrorThrown /\ UNCHANGED litVars
                ELSE IF foundLineIndex = -1
                THEN alert' = NoPrevOccurrences /\ UNCHANGED litVars
                ELSE /\ showFrom(lines, foundLineIndex)
                     /\ alert' = NoAlert
    /\ op' = "findPrevLiterature"
    /\ returned' = null
    /\ UNCHANGED <<loadedReports, literatureFile, literatureSearchTerm,
                   literatureNumLines, isLoadingPreloaded, uploads>>

\* nextLinesLiterature, were the end test newStartLine > lines.length
nextLinesLiteraturePastEnd ==
    /\ IF noLiteratureFile
       THEN alert' = NoDocument /\ UNCHANGED litVars
       ELSE IF ~hasFoundLine
       THEN alert' = NoCursor /\ UNCHANGED litVars
       ELSE LET lines == split(loadedReports[Val(literatureFile)])
                numLines == numLinesOf(literatureNumLines)
                newStartLine == Val(literatureFoundLine) - 1 + numLines
            IN  IF newStartLine > Len(lines)
                THEN alert' = EndOfText /\ UNCHANGED litVars
                ELSE /\ showFrom(lines, newStartLine)
                     /\ alert' = NoAlert
    /\ op' = "nextLinesLiterature"
    /\ returned' = null
    /\ UNCHANGED <<loadedReports, literatureFile, literatureSearchTerm,
                   literatureNumLines, isLoadingPreloaded, uploads>>

\* nextLinesLiterature, were the 1-based found line taken for the 0-based one
nextLinesLiteratureOneBased ==
    /\ IF noLiteratureFile
       THEN alert' = NoDocument /\ UNCHANGED litVars
       ELSE IF ~hasFoundLine
       THEN alert' = NoCursor /\ UNCHANGED litVars
       ELSE LET lines == split(loadedReports[Val(literatureFile)])
                numLines == numLinesOf(literatureNumLines)
                newStartLine == Val(literatureFoundLine) + numLines
            IN  IF newStartLine >= Len(lines)
                THEN alert' = EndOfText /\ UNCHANGED litVars
                ELSE /\ showFrom(lines, newStartLine)
                     /\ alert' = NoAlert
    /\ op' = "nextLinesLiterature"
    /\ returned' = null
    /\ UNCHANGED <<loadedReports, literatureFile, literatureSearchTerm,
                   literatureNumLines, isLoadingPreloaded, uploads>>

nextLinesLiterature ==
    /\ IF noLiteratureFile
       THEN alert' = NoDocument /\ UNCHANGED litVars
       ELSE IF ~hasFoundLine
       THEN alert' = NoCursor /\ UNCHANGED litVars
       ELSE LET lines == split(loadedReports[Val(literatureFile)])
                numLines == numLinesOf(literatureNumLines)
                newStartLine == Val(literatureFoundLine) - 1 + numLines
            IN  IF newStartLine >= Len(lines)
                THEN alert' = EndOfText /\ UNCHANGED litVars
                ELSE /\ showFrom(lines, newStartLine)
                     /\ alert' = NoAlert
    /\ op' = "nextLinesLiterature"
    /\ returned' = null
    /\ UNCHANGED <<loadedReports, literatureFile, literatureSearchTerm,
                   literatureNumLines, isLoadingPreloaded, uploads>>

\* onChange of the search input
setLiteratureSearchTerm(text) ==
    /\ literatureSearchTerm' = text
    /\ op' = "setLiteratureSearchTerm"
    /\ returned' = null
    /\ alert' = NoAlert
    /\ UNCHANGED <<loadedReports, literatureFile, literatureNumLines, litVars,
                   isLoadingPreloaded, uploads>>

\* setLiteratureNumLines, were the change of size to drop the found line and
\* the window
setLiteratureNumLinesResetting(text) ==
    /\ literatureNumLines' =
           (LET n == parseInt(text)
            IN  IF n = null \/ Val(n) = 0 THEN 500 ELSE Val(n))
    /\ literatureFoundLine' = null
    /\ literatureDisplayContent' = null
    /\ op' = "setLiteratureNumLines"
    /\ returned' = null
    /\ alert' = NoAlert
    /\ UNCHANGED <<loadedReports, literatureFile, literatureSearchTerm,
                   isLoadingPreloaded, uploads>>

\* onChange of the "# of lines" input: parseInt(e.target.value) || 500
setLiteratureNumLines(text) ==
    /\ literatureNumLines' =
           (LET n == parseInt(text)
            IN  IF n = null \/ Val(n) = 0 THEN 500 ELSE Val(n))
    /\ op' = "setLiteratureNumLines"
    /\ returned' = null
    /\ alert' = NoAlert
    /\ UNCHANGED <<loadedReports, literatureFile, literatureSearchTerm, litVars,
                   isLoadingPreloaded, uploads>>

-----------------------------------------------------------------------------
(* Report handlers *)

toggleLiterature(filename) ==
    /\ IF literatureFile = Some(filename)
       THEN /\ literatureFile' = null
            /\ UNCHANGED literatureSearchTerm
       ELSE /\ literatureFile' = Some(filename)
            /\ literatureSearchTerm' = <<>>
    /\ literatureDisplayContent' = null
    /\ literatureFoundLine' = null
    /\ op' = "toggleLiterature"
    /\ returned' = null
    /\ alert' = NoAlert
    /\ UNCHANGED <<loadedReports, literatureNumLines, isLoadingPreloaded, uploads>>

\* removeReport, were the found line and the window of a removed literature
\* file kept
removeReportKeepingWindow(filename) ==
    /\ IF Some(filename) = literatureFile
       THEN /\ literatureFile' = null
            /\ UNCHANGED litVars
       ELSE UNCHANGED <<literatureFile, litVars>>
    /\ loadedReports' = [f \in DOMAIN loadedReports \ {filename} |-> loadedReports[f]]
    /\ op' = "removeReport"
    /\ returned' = null
    /\ alert' = NoAlert
    /\ UNCHANGED <<literatureSearchTerm, literatureNumLines, isLoadingPreloaded, uploads>>

\* removeReport, were the literature file kept when its file is removed
removeReportKeepingLiterature(filename) ==
    /\ UNCHANGED <<literatureFile, litVars>>
    /\ loadedReports' = [f \in DOMAIN loadedReports \ {filename} |-> loadedReports[f]]
    /\ op' = "removeReport"
    /\ returned' = null
    /\ alert' = NoAlert
    /\ UNCHANGED <<literatureSearchTerm, literatureNumLines, isLoadingPreloaded, uploads>>

removeReport(filename) ==
    /\ IF Some(filename) = literatureFile
       THEN /\ literatureFile' = null
            /\ literatureDisplayContent' = null
            /\ literatureFoundLine' = null
       ELSE UNCHANGED <<literatureFile, litVars>>
    /\ loadedReports' = [f \in DOMAIN loadedReports \ {filename} |-> loadedReports[f]]
    /\ op' = "removeReport"
    /\ returned' = null
    /\ alert' = NoAlert
    /\ UNCHANGED <<literatureSearchTerm, literatureNumLines, isLoadingPreloaded, uploads>>

clearAllReports ==
    /\ loadedReports' = EmptyReports
    /\ literatureFile' = null
    /\ literatureDisplayContent' = null
    /\ literatureFoundLine' = null
    /\ op' = "clearAllReports"
    /\ returned' = null
    /\ alert' = NoAlert
    /\ UNCHANGED <<literatureSearchTerm, literatureNumLines, isLoadingPreloaded, uploads>>

\* handleFolderSelect up to its first await: the text files are picked and
\* sorted, and the call keeps !literatureFile of the render it was made in
handleFolderSelect(files) ==
    LET textFiles == SelectSeq(NameOrder, LAMBDA n : n \in files /\ isTextFile(n))
    IN  /\ IF Len(textFiles) = 0
           THEN /\ alert' = NoTextFiles
                /\ UNCHANGED uploads
           ELSE /\ Len(uploads) < MaxUploads
                /\ alert' = NoAlert
                /\ uploads' = Append(uploads, [textFiles |-> textFiles,
                                               noLiteratureFile |-> literatureFile = null])
        /\ op' = "handleFolderSelect"
        /\ returned' = null
        /\ UNCHANGED <<loadedReports, literatureFile, literatureSearchTerm,
                       literatureNumLines, litVars, isLoadingPreloaded>>

\* handleFolderSelect after its reads: read[n] is the text of file n, or null
\* when file.text() was rejected
handleFolderSelectResume(k, read) ==
    LET call == uploads[k]
        names == {call.textFiles[i] : i \in 1..Len(call.textFiles)}
        newReports == [n \in {m \in names : read[m] # null} |-> Val(read[n])]
        largeFile == largestFile(newReports, call.textFiles)
    IN  /\ loadedReports' = [f \in DOMAIN loadedReports \cup DOMAIN newReports |->
                                IF f \in DOMAIN newReports THEN newReports[f]
                                                           ELSE loadedReports[f]]
        /\ IF largeFile # null /\ call.noLiteratureFile
           THEN literatureFile' = largeFile
           ELSE UNCHANGED literatureFile
        /\ uploads' = [i \in 1..(Len(uploads) - 1) |->
                          IF i < k THEN uploads[i] ELSE uploads[i + 1]]
        /\ op' = "handleFolderSelect resumed"
        /\ returned' = null
        /\ alert' = NoAlert
        /\ UNCHANGED <<literatureSearchTerm, literatureNumLines, litVars,
                       isLoadingPreloaded>>

\* handlePreloadedFolderSelect up to its fetch; the select is disabled while
\* isLoadingPreloaded
handlePreloadedFolderSelect(folderName) ==
    /\ ~isLoadingPreloaded
    /\ isLoadingPreloaded' = (folderName # "")
    /\ op' = "handlePreloadedFolderSelect"
    /\ returned' = null
    /\ alert' = NoAlert
    /\ UNCHANGED <<loadedReports, literatureFile, literatureSearchTerm,
                   literatureNumLines, litVars, uploads>>

\* the fetch answered with filesData, whose keys come in the order `order`
handlePreloadedFolderLoaded(filesData, order) ==
    /\ isLoadingPreloaded
    /\ loadedReports' = filesData
    /\ literatureFile' = largestFile(filesData, order)
    /\ literatureDisplayContent' = null
    /\ literatureFoundLine' = null
    /\ isLoadingPreloaded' = FALSE
    /\ op' = "handlePreloadedFolderSelect loaded"
    /\ returned' = null
    /\ alert' = NoAlert
    /\ UNCHANGED <<literatureSearchTerm, literatureNumLines, uploads>>

\* the fetch failed: the catch branch
handlePreloadedFolderFailed ==
    /\ isLoadingPreloaded
    /\ isLoadingPreloaded' = FALSE
    /\ op' = "handlePreloadedFolderSelect failed"
    /\ returned' = null
    /\ alert' = LoadError
    /\ UNCHANGED <<loadedReports, literatureFile, literatureSearchTerm,
                   literatureNumLines, litVars, uploads>>

-----------------------------------------------------------------------------
(* Inputs of the handlers *)

TextNames == {n \in UNION Folders : isTextFile(n)}

\* what the reads of a set of files may give
ReadsOf(names) == [names -> {null} \cup {Some(d) : d \in Docs}]

\* the answers of the preloaded-folder fetch
FolderData == UNION {[S -> Docs] : S \in SUBSET TextNames}

\* the orders in which the keys of an answer may come
OrdersOf(data) ==
    {o \in [1..Cardinality(DOMAIN data) -> DOMAIN data] :
        \A i, j \in DOMAIN o : i # j => o[i] # o[j]}

Next ==
    \/ goSearch /\ UNCHANGED otherThanReports
    \/ findNextLiterature /\ UNCHANGED otherThanReports
    \/ findPrevLiterature /\ UNCHANGED otherThanReports
    \/ nextLinesLiterature /\ UNCHANGED otherThanReports
    \/ \E text \in Terms :
           setLiteratureSearchTerm(text) /\ UNCHANGED otherThanReports
    \/ \E text \in NumTexts :
           setLiteratureNumLines(text) /\ UNCHANGED otherThanReports
    \/ \E filename \in DOMAIN loadedReports :
           toggleLiterature(filename) /\ UNCHANGED otherThanReports
    \/ \E filename \in DOMAIN loadedReports :
           removeReport(filename) /\ UNCHANGED otherThanReports
    \/ DOMAIN loadedReports # {} /\ clearAllReports /\ UNCHANGED otherThanReports
    \/ \E files \in Folders :
           handleFolderSelect(files) /\ UNCHANGED otherThanReports
    \/ \E k \in 1..Len(uploads) :
           \E read \in ReadsOf({uploads[k].textFiles[i] : i \in 1..Len(uploads[k].textFiles)}) :
               handleFolderSelectResume(k, read) /\ UNCHANGED otherThanReports
    \/ \E folderName \in {"", "books"} :
           handlePreloadedFolderSelect(folderName) /\ UNCHANGED otherThanReports
    \/ \E filesData \in FolderData : \E order \in OrdersOf(filesData) :
           handlePreloadedFolderLoaded(filesData, order) /\ UNCHANGED otherThanReports
    \/ handlePreloadedFolderFailed /\ UNCHANGED otherThanReports

Spec == Init /\ [][Next]_vars

-----------------------------------------------------------------------------
(* Chat *)

\* exchanges (a user message and its answer) the chat may hold
MaxExchanges == 2

NoApiKey == "Please enter your API key"

\* Texts a file may hold when the system prompt is built: nothing, one of
\* exactly MAX_CHARS_FOR_CHAT characters and one of one character more
ChatDocs == { <<>>, <<"a", "\n", "b">>, <<"a", "b", "\n", "A">> }

\* the answers of the preloaded-folder fetch, of the texts of ChatDocs
ChatFolderData == UNION {[S -> ChatDocs] : S \in SUBSET TextNames}

\* texts typed into the chat input
Inputs == { <<" ">>, <<"h", "i">> }

\* roles[selectedRole]?.prompt
rolePrompt(role) ==
    IF role = "socratic_coach" THEN Some(<<"You are a thoughtful coach">>) ELSE null

\* Object.entries(loadedReports), in the order of the names
entries == SelectSeq(NameOrder, LAMBDA f : f \in DOMAIN loadedReports)

\* getReportsForChat, were a file of exactly MAX_CHARS_FOR_CHAT characters
\* left out
getReportsForChatBelowMax ==
    SelectSeq(entries, LAMBDA f : /\ Some(f) # literatureFile
                                  /\ Len(loadedReports[f]) < MAX_CHARS_FOR_CHAT)

\* the names of the files sent to the chat
getReportsForChat ==
    SelectSeq(entries, LAMBDA f : /\ Some(f) # literatureFile
                                  /\ Len(loadedReports[f]) <= MAX_CHARS_FOR_CHAT)

\* the names of the files left out of the chat
excludedFiles ==
    SelectSeq(entries, LAMBDA f : \/ Some(f) = literatureFile
                                  \/ Len(loadedReports[f]) > MAX_CHARS_FOR_CHAT)

RECURSIVE joinWith(_, _)
\* parts.join(sep), of parts that are texts
joinWith(parts, sep) ==
    IF Len(parts) = 0 THEN <<>>
    ELSE IF Len(parts) = 1 THEN parts[1]
    ELSE parts[1] \o <<sep>> \o joinWith(Tail(parts), sep)

RECURSIVE fileSections(_)
\* reportsContext += `--- FILE: ${filename} ---\n${content}\n\n`
fileSections(names) ==
    IF Len(names) = 0 THEN <<>>
    ELSE <<"--- FILE: ", names[1], " ---\n">> \o loadedReports[names[1]] \o <<"\n\n">>
             \o fileSections(Tail(names))

\* excludedFiles.map(([name]) => name).join(', ')
excludedNames == joinWith([i \in 1..Len(excludedFiles) |-> <<excludedFiles[i]>>], ", ")

\* the text returned by buildSystemPrompt, a sequence of its fixed phrases,
\* of file names and of the characters of the files; null when it has no part
buildSystemPrompt ==
    LET roleParts == IF rolePrompt(selectedRole) # null
                     THEN <<Val(rolePrompt(selectedRole))>> ELSE <<>>
        reportsContext ==
            <<"You have access to the following report files.">>
                \o fileSections(getReportsForChat)
                \o (IF Len(excludedFiles) > 0
                    THEN <<"Note: not included in context due to size: ">>
                             \o excludedNames \o <<". You can help the user.\n">>
                    ELSE <<>>)
        readingNote ==
            <<"Note: file(s) loaded for reading: ">>
                \o excludedNames \o <<". These are not included in context.\n">>
        parts == roleParts
                     \o (IF Len(getReportsForChat) > 0 THEN <<reportsContext>>
                         ELSE IF Len(excludedFiles) > 0 THEN <<readingNote>>
                         ELSE <<>>)
    IN  IF Len(parts) > 0 THEN Some(joinWith(parts, "\n\n")) ELSE null

\* !(aiProvider === 'ChatGPT' && useSharedKey)
needsApiKey == ~(aiProvider = "ChatGPT" /\ useSharedKey)

\* onClick of the provider buttons
setAiProvider(provider) ==
    /\ aiProvider' = provider
    /\ op' = "setAiProvider"
    /\ alert' = NoAlert
    /\ returned' = null
    /\ UNCHANGED <<apiKey, useSharedKey, selectedRole, messages, inputValue,
                   isLoading, requests>>

\* onChange of the API key input
setApiKey(text) ==
    /\ apiKey' = text
    /\ op' = "setApiKey"
    /\ alert' = NoAlert
    /\ returned' = null
    /\ UNCHANGED <<aiProvider, useSharedKey, selectedRole, messages, inputValue,
                   isLoading, requests>>

\* the "Use Stanley's Key" button, shown for ChatGPT: code is what the prompt
\* dialog gave
useStanleysKey(code) ==
    /\ aiProvider = "ChatGPT"
    /\ IF code # ""
       THEN useSharedKey' = TRUE /\ apiKey' = ""
       ELSE UNCHANGED <<useSharedKey, apiKey>>
    /\ op' = "useStanleysKey"
    /\ alert' = NoAlert
    /\ returned' = null
    /\ UNCHANGED <<aiProvider, selectedRole, messages, inputValue, isLoading, requests>>

\* onChange of the role select: with messages in the chat the change is made,
\* and the chat cleared, only when the user confirms
setSelectedRole(newRole, confirmed) ==
    /\ IF Len(messages) > 0
       THEN IF confirmed
            THEN selectedRole' = newRole /\ messages' = <<>>
            ELSE UNCHANGED <<selectedRole, messages>>
       ELSE selectedRole' = newRole /\ UNCHANGED messages
    /\ op' = "setSelectedRole"
    /\ alert' = NoAlert
    /\ returned' = null
    /\ UNCHANGED <<aiProvider, apiKey, useSharedKey, inputValue, isLoading, requests>>

\* onChange of the chat input, which is disabled while isLoading
setInputValue(text) ==
    /\ ~isLoading
    /\ inputValue' = text
    /\ op' = "setInputValue"
    /\ alert' = NoAlert
    /\ returned' = null
    /\ UNCHANGED <<aiProvider, apiKey, useSharedKey, selectedRole, messages,
                   isLoading, requests>>

clearChat ==
    /\ messages' = <<>>
    /\ op' = "clearChat"
    /\ alert' = NoAlert
    /\ returned' = null
    /\ UNCHANGED <<aiProvider, apiKey, useSharedKey, selectedRole, inputValue,
                   isLoading, requests>>

\* sendMessage up to its fetch, from the Send button or the Enter key of the
\* input, both disabled while isLoading
sendMessage ==
    /\ ~isLoading
    /\ IF trim(inputValue) = <<>>
       THEN alert' = NoAlert /\ UNCHANGED <<messages, inputValue, isLoading, requests>>
       ELSE IF needsApiKey /\ apiKey = ""
       THEN alert' = NoApiKey /\ UNCHANGED <<messages, inputValue, isLoading, requests>>
       ELSE LET userMessage == [role |-> "user", content |-> inputValue]
                newMessages == Append(messages, userMessage)
            IN  /\ Len(newMessages) < 2 * MaxExchanges
                /\ messages' = newMessages
                /\ inputValue' = <<>>
                /\ isLoading' = TRUE
                /\ requests' = Append(requests, [newMessages |-> newMessages,
                                                 systemPrompt |-> buildSystemPrompt])
                /\ alert' = NoAlert
    /\ op' = "sendMessage"
    /\ returned' = null
    /\ UNCHANGED <<aiProvider, apiKey, useSharedKey, selectedRole>>

\* what the fetch of a request may end in: a reply, an HTTP error status, a
\* failure of the network
Outcomes == { [ok |-> TRUE,  text |-> <<"o", "k">>],
              [ok |-> FALSE, text |-> <<"API request failed">>],
              [ok |-> FALSE, text |-> <<"Failed to fetch">>] }

\* the assistant message that sendMessage makes of an outcome
assistantMessage(outcome) ==
    [role |-> "assistant",
     content |-> IF outcome.ok THEN outcome.text ELSE <<"Error: ">> \o outcome.text]

\* sendMessage after its fetch, were the assistant message added to the
\* messages of the moment and not to those of the send
sendMessageSettledAppending(k, outcome) ==
    /\ messages' = Append(messages, assistantMessage(outcome))
    /\ isLoading' = FALSE
    /\ requests' = [i \in 1..(Len(requests) - 1) |->
                       IF i < k THEN requests[i] ELSE requests[i + 1]]
    /\ op' = "sendMessage settled"
    /\ alert' = NoAlert
    /\ returned' = null
    /\ UNCHANGED <<aiProvider, apiKey, useSharedKey, selectedRole, inputValue>>

\* sendMessage after its fetch: the try, catch and finally branches
sendMessageSettled(k, outcome) ==
    /\ messages' = Append(requests[k].newMessages, assistantMessage(outcome))
    /\ isLoading' = FALSE
    /\ requests' = [i \in 1..(Len(requests) - 1) |->
                       IF i < k THEN requests[i] ELSE requests[i + 1]]
    /\ op' = "sendMessage settled"
    /\ alert' = NoAlert
    /\ returned' = null
    /\ UNCHANGED <<aiProvider, apiKey, useSharedKey, selectedRole, inputValue>>

\* what the handlers of the chat leave alone
otherThanChat == <<reportVars, cardVars, chessVars>>

\* files are loaded and picked as literature, a role is chosen and messages
\* are sent with the shared key and answered
NextPrompt ==
    \/ handlePreloadedFolderSelect("books") /\ UNCHANGED otherThanReports
    \/ \E filesData \in ChatFolderData : \E order \in OrdersOf(filesData) :
           handlePreloadedFolderLoaded(filesData, order) /\ UNCHANGED otherThanReports
    \/ \E filename \in DOMAIN loadedReports :
           toggleLiterature(filename) /\ UNCHANGED otherThanReports
    \/ \E filename \in DOMAIN loadedReports :
           removeReport(filename) /\ UNCHANGED otherThanReports
    \/ \E role \in {"default", "socratic_coach"} : \E confirmed \in BOOLEAN :
           setSelectedRole(role, confirmed) /\ UNCHANGED otherThanChat
    \/ useStanleysKey("code") /\ UNCHANGED otherThanChat
    \/ setInputValue(<<"h", "i">>) /\ UNCHANGED otherThanChat
    \/ sendMessage /\ UNCHANGED otherThanChat
    \/ \E k \in 1..Len(requests) : \E outcome \in {o \in Outcomes : o.ok} :
           sendMessageSettled(k, outcome) /\ UNCHANGED otherThanChat

SpecPrompt == Init /\ [][NextPrompt]_vars

\* the user sets the provider and the keys, types, sends and clears
NextChat ==
    \/ \E provider \in {"ChatGPT", "Anthropic"} :
           setAiProvider(provider) /\ UNCHANGED otherThanChat
    \/ \E text \in {"", "sk"} : setApiKey(text) /\ UNCHANGED otherThanChat
    \/ \E code \in {"", "code"} : useStanleysKey(code) /\ UNCHANGED otherThanChat
    \/ \E role \in {"default", "socratic_coach"} : \E confirmed \in BOOLEAN :
           setSelectedRole(role, confirmed) /\ UNCHANGED otherThanChat
    \/ \E text \in Inputs : setInputValue(text) /\ UNCHANGED otherThanChat
    \/ sendMessage /\ UNCHANGED otherThanChat
    \/ \E k \in 1..Len(requests) : \E outcome \in Outcomes :
           sendMessageSettled(k, outcome) /\ UNCHANGED otherThanChat
    \/ clearChat /\ UNCHANGED otherThanChat

SpecChat == Init /\ [][NextChat]_vars

-----------------------------------------------------------------------------
(* Flashcard blocks *)

\* generateFromPaste timeouts that may be pending at the same time
MaxTimers == 1

\* texts of Textarea 2: blank, without a marker, with one block, with three
BlockTexts ==
    { <<" ">>,
      <<"z">>,
      <<"[", "1", "]", " ", "-", " ", "n", "\n", "a", ";", "b">>,
      <<"[", "1", "]", "\n", "a", ";", "b", "\n", "[", "2", "]", "x", "\n",
        "[", "5", "]", " ", "-", "\n">> }

isDigitChar(c) == c \in {"0", "1", "2", "3", "4", "5", "6", "7", "8", "9"}

\* the index after the digits that follow the '[' of a line
digitsEnd(line) ==
    Min({k \in 2..(Len(line) + 1) : k > Len(line) \/ ~isDigitChar(line[k])})

\* line.match(/^\[(\d+)\]\s*-?\s*(.*)/) is not null
blockMatch(line) ==
    /\ Len(line) >= 3
    /\ line[1] = "["
    /\ digitsEnd(line) > 2
    /\ digitsEnd(line) <= Len(line)
    /\ line[digitsEnd(line)] = "]"

\* s without its leading whitespace
trimStart(s) ==
    LET keep == {i \in 1..Len(s) : ~isSpace(s[i])}
    IN  IF keep = {} THEN <<>> ELSE SubSeq(s, Min(keep), Len(s))

\* blockMatch[1]
blockId(line) == SubSeq(line, 2, digitsEnd(line) - 1)

\* blockMatch[2], trimmed: what follows the marker, an optional dash and the
\* whitespace around it
blockNotes(line) ==
    LET rest   == trimStart(SubSeq(line, digitsEnd(line) + 1, Len(line)))
        undash == IF rest # <<>> /\ rest[1] = "-" THEN Tail(rest) ELSE rest
    IN  trim(undash)

\* the block that a marker line and the lines after it make
closedBlock(currentBlock, currentContent) ==
    [id      |-> Val(currentBlock).id,
     notes   |-> Val(currentBlock).notes,
     content |-> trim(join(currentContent))]

RECURSIVE scanLines(_, _, _, _)
\* the loop of scanForBlocks over the lines that are left
scanLines(lines, blocks, currentBlock, currentContent) ==
    LET saved == IF currentBlock # null
                 THEN Append(blocks, closedBlock(currentBlock, currentContent))
                 ELSE blocks
    IN  IF lines = <<>> THEN saved
        ELSE IF blockMatch(Head(lines))
        THEN scanLines(Tail(lines), saved,
                       Some([id |-> blockId(Head(lines)), notes |-> blockNotes(Head(lines))]),
                       <<>>)
        ELSE IF currentBlock # null
        THEN scanLines(Tail(lines), blocks, currentBlock, Append(currentContent, Head(lines)))
        ELSE scanLines(Tail(lines), blocks, currentBlock, currentContent)

\* the blocks of a text
parseBlocks(content) == scanLines(split(content), <<>>, null, <<>>)

\* the most blocks that a text has
MaxBlocks == Max({Len(parseBlocks(text)) : text \in BlockTexts})

\* the trail after a navigation called with arg (null when it takes none): a
\* nextBlock over blocks goes on with the run of nextBlock calls, or starts one
\* when there is none or when the run has as many calls as there are blocks
trailed(name, arg) ==
    LET run == IF name = "nextBlock" /\ Len(flashcardBlocks) >= 1
               THEN IF trail # null
                       /\ Val(trail).count \in 1..(Len(flashcardBlocks) - 1)
                    THEN [start |-> Val(trail).start, count |-> Val(trail).count + 1]
                    ELSE [start |-> currentBlockIndex, count |-> 1]
               ELSE [start |-> 0, count |-> 0]
    IN  Some([op     |-> name,
              arg    |-> arg,
              before |-> currentBlockIndex,
              start  |-> run.start,
              count  |-> run.count])

\* what the block navigation leaves alone
otherThanBlocks == <<currentFlashcards, isReversed, tempFlashcardDatabase, dropdown, batches>>

\* the body of loadBlockByIndex for the blocks given
loadBlock(blocks, index, autoGenerate) ==
    IF Len(blocks) = 0 \/ index < 0 \/ index >= Len(blocks)
    THEN UNCHANGED <<currentBlockIndex, pasteInput, currentSetName, blockTitle,
                     blockCounter, timers>>
    ELSE LET block       == blocks[index + 1]
             displayName == IF block.notes # <<>> THEN block.notes
                            ELSE <<"Block ">> \o block.id
         IN  /\ currentBlockIndex' = index
             /\ pasteInput' = block.content
             /\ currentSetName' = Some(displayName)
             /\ blockTitle' = Some(<<"- ">> \o displayName)
             /\ blockCounter' = Some(<<index + 1, Len(blocks)>>)
             /\ IF autoGenerate
                THEN timers < MaxTimers /\ timers' = timers + 1
                ELSE UNCHANGED timers

\* the body of scanForBlocks for the text of Textarea 2
scan(content) ==
    IF trim(content) = <<>>
    THEN /\ flashcardBlocks' = <<>>
         /\ alert' = EmptyTextarea2
         /\ returned' = Some(0)
         /\ UNCHANGED <<currentBlockIndex, pasteInput, currentSetName, blockTitle,
                        blockCounter, timers>>
    ELSE LET blocks == parseBlocks(content)
         IN  /\ flashcardBlocks' = blocks
             /\ returned' = Some(Len(blocks))
             /\ IF Len(blocks) = 0
                THEN /\ currentBlockIndex' = 0
                     /\ alert' = NoBlocksFound
                     /\ blockCounter' = Some(<<0, 0>>)
                     /\ blockTitle' = Some(<<>>)
                     /\ UNCHANGED <<pasteInput, currentSetName, timers>>
                ELSE /\ loadBlock(blocks, 0, TRUE)
                     /\ alert' = NoAlert

\* typing into Textarea 2
setBlockSourceInput(text) ==
    /\ blockSourceInput' = text
    /\ op' = "setBlockSourceInput"
    /\ alert' = NoAlert
    /\ returned' = null
    /\ UNCHANGED <<flashcardBlocks, currentBlockIndex, pasteInput, blockCounter,
                   blockTitle, currentSetName, timers, trail>>
    /\ UNCHANGED otherThanBlocks

scanForBlocks ==
    /\ scan(blockSourceInput)
    /\ op' = "scanForBlocks"
    /\ trail' = trailed("scanForBlocks", null)
    /\ UNCHANGED blockSourceInput
    /\ UNCHANGED otherThanBlocks

loadBlockByIndex(index, autoGenerate) ==
    /\ loadBlock(flashcardBlocks, index, autoGenerate)
    /\ op' = "loadBlockByIndex"
    /\ alert' = NoAlert
    /\ returned' = null
    /\ UNCHANGED <<blockSourceInput, flashcardBlocks>>
    /\ trail' = trailed("loadBlockByIndex", Some(index))
    /\ UNCHANGED otherThanBlocks

\* nextBlock, were the index not wrapped
nextBlockUnwrapped ==
    /\ IF Len(flashcardBlocks) = 0
       THEN scan(blockSourceInput)
       ELSE /\ loadBlock(flashcardBlocks,
                         IF currentBlockIndex + 1 < Len(flashcardBlocks)
                         THEN currentBlockIndex + 1 ELSE currentBlockIndex,
                         TRUE)
            /\ alert' = NoAlert
            /\ returned' = null
            /\ UNCHANGED flashcardBlocks
    /\ op' = "nextBlock"
    /\ trail' = trailed("nextBlock", null)
    /\ UNCHANGED blockSourceInput
    /\ UNCHANGED otherThanBlocks

nextBlock ==
    /\ IF Len(flashcardBlocks) = 0
       THEN scan(blockSourceInput)
       ELSE /\ loadBlock(flashcardBlocks,
                         (currentBlockIndex + 1) % Len(flashcardBlocks), TRUE)
            /\ alert' = NoAlert
            /\ returned' = null
            /\ UNCHANGED flashcardBlocks
    /\ op' = "nextBlock"
    /\ trail' = trailed("nextBlock", null)
    /\ UNCHANGED blockSourceInput
    /\ UNCHANGED otherThanBlocks

prevBlock ==
    /\ IF Len(flashcardBlocks) = 0
       THEN scan(blockSourceInput)
       ELSE /\ loadBlock(flashcardBlocks,
                         (currentBlockIndex - 1 + Len(flashcardBlocks))
                             % Len(flashcardBlocks), TRUE)
            /\ alert' = NoAlert
            /\ returned' = null
            /\ UNCHANGED flashcardBlocks
    /\ op' = "prevBlock"
    /\ trail' = trailed("prevBlock", null)
    /\ UNCHANGED blockSourceInput
    /\ UNCHANGED otherThanBlocks

\* pasteAndScanBlocks when its read of the clipboard ends: with a text, or
\* refused (null)
pasteAndScanBlocks(clipboard) ==
    /\ IF clipboard = null
       THEN /\ alert' = ClipboardDenied
            /\ returned' = null
            /\ UNCHANGED <<blockSourceInput, flashcardBlocks, currentBlockIndex,
                           pasteInput, currentSetName, blockTitle, blockCounter,
                           timers, trail>>
       ELSE IF trim(Val(clipboard)) = <<>>
       THEN /\ alert' = ClipboardEmpty
            /\ returned' = null
            /\ UNCHANGED <<blockSourceInput, flashcardBlocks, currentBlockIndex,
                           pasteInput, currentSetName, blockTitle, blockCounter,
                           timers, trail>>
       ELSE /\ blockSourceInput' = Val(clipboard)
            /\ scan(Val(clipboard))
            /\ trail' = trailed("scanForBlocks", null)
    /\ op' = "pasteAndScanBlocks"
    /\ UNCHANGED otherThanBlocks

\* trimmedLine.indexOf(c)
indexOf(s, c) ==
    LET at == {i \in 1..Len(s) : s[i] = c}
    IN  IF at = {} THEN 0 - 1 ELSE Min(at) - 1

\* the lines of a text that are not blank
filledLines(content) == SelectSeq(split(content), LAMBDA line : trim(line) # <<>>)

\* a card, its sides swapped when isReversed
card(front, back) ==
    IF isReversed THEN [front |-> back, back |-> front]
    ELSE [front |-> front, back |-> back]

RECURSIVE pasteCards(_)
\* the cards that generateFromPaste makes of lines 'front;back'
pasteCards(lines) ==
    IF lines = <<>> THEN <<>>
    ELSE LET trimmedLine    == trim(Head(lines))
             semicolonIndex == indexOf(trimmedLine, ";")
             front == trim(SubSeq(trimmedLine, 1, semicolonIndex))
             back  == trim(SubSeq(trimmedLine, semicolonIndex + 2, Len(trimmedLine)))
         IN  (IF semicolonIndex > 0 /\ front # <<>> /\ back # <<>>
              THEN <<card(front, back)>> ELSE <<>>)
             \o pasteCards(Tail(lines))

\* generateFromPaste, from its button or from a timeout of loadBlockByIndex
generateFromPaste(fromTimer) ==
    /\ IF fromTimer THEN timers > 0 /\ timers' = timers - 1 ELSE UNCHANGED timers
    /\ LET content    == trim(pasteInput)
           flashcards == pasteCards(filledLines(content))
       IN  IF content = <<>>
           THEN alert' = NoPasteContent /\ UNCHANGED currentFlashcards
           ELSE IF Len(flashcards) = 0
           THEN alert' = NoValidCards /\ UNCHANGED currentFlashcards
           ELSE alert' = NoAlert /\ currentFlashcards' = flashcards
    /\ op' = "generateFromPaste"
    /\ returned' = null
    /\ UNCHANGED <<blockSourceInput, flashcardBlocks, currentBlockIndex, pasteInput,
                   blockCounter, blockTitle, currentSetName, trail>>
    /\ UNCHANGED <<isReversed, tempFlashcardDatabase, dropdown, batches>>

\* what the handlers of the flashcards leave alone
otherThanCards == <<reportVars, chatVars, chessVars>>

\* the indexes that loadBlockByIndex is called with
BlockIndexes == (0 - 1)..MaxBlocks

\* Textarea 2 is typed into or pasted into and scanned, the blocks are walked
\* through, and the timeouts of the walk fire
NextBlocks ==
    \/ \E text \in BlockTexts : setBlockSourceInput(text) /\ UNCHANGED otherThanCards
    \/ scanForBlocks /\ UNCHANGED otherThanCards
    \/ \E index \in BlockIndexes : \E autoGenerate \in BOOLEAN :
           loadBlockByIndex(index, autoGenerate) /\ UNCHANGED otherThanCards
    \/ nextBlock /\ UNCHANGED otherThanCards
    \/ prevBlock /\ UNCHANGED otherThanCards
    \/ \E clipboard \in {null} \cup {Some(text) : text \in BlockTexts} :
           pasteAndScanBlocks(clipboard) /\ UNCHANGED otherThanCards
    \/ \E fromTimer \in BOOLEAN : generateFromPaste(fromTimer) /\ UNCHANGED otherThanCards

SpecBlocks == Init /\ [][NextBlocks]_vars

-----------------------------------------------------------------------------
(* Flashcard files *)

\* handleFiles calls that may have reads going on at the same time
MaxBatches == 1

\* the delimiter of the sets of a file, kept as one element of a text
Delimiter == "\n###\n###\n"

\* files: a text file, a file known as text by its name only, and an image
FileX == [name |-> <<"x", ".", "t", "x", "t">>, type |-> "text/plain"]
FileY == [name |-> <<"y", ".", "c", "s", "v">>, type |-> ""]
FileP == [name |-> <<"p", ".", "p", "n", "g">>, type |-> "image/png"]

\* what is dropped on the page or picked in the file input
FileLists == { <<FileP>>, <<FileX>>, <<FileX, FileY>>, <<FileP, FileY>> }

\* what a file holds: a card, nothing but whitespace, a line that is no card,
\* two sets with a delimiter between them
FileContents ==
    { <<"a", ",", "b">>,
      <<" ">>,
      <<"c">>,
      <<"@", "s", "\n", "a", ",", "b", Delimiter, "c", ",", "d">> }

\* name.endsWith(suffix)
endsWith(name, suffix) ==
    /\ Len(name) >= Len(suffix)
    /\ SubSeq(name, Len(name) - Len(suffix) + 1, Len(name)) = suffix

\* file.type.includes('text')
typeIncludesText(type) == type \in {"text/plain", "text/csv"}

\* the filter of handleFiles
isFlashcardFile(file) ==
    \/ typeIncludesText(file.type)
    \/ endsWith(file.name, <<".", "t", "x", "t">>)
    \/ endsWith(file.name, <<".", "c", "s", "v">>)
    \/ endsWith(file.name, <<".", "t", "s", "v">>)

\* name.replace(/\.[^/.]+$/, '')
removeExtension(name) ==
    LET dots == {i \in 1..Len(name) : name[i] = "."}
    IN  IF dots # {} /\ Max(dots) < Len(name)
           /\ \A j \in (Max(dots) + 1)..Len(name) : name[j] # "/"
        THEN SubSeq(name, 1, Max(dots) - 1)
        ELSE name

RECURSIVE splitOn(_, _)
\* content.split(sep) for a separator kept as one element
splitOn(s, sep) ==
    LET at == {i \in 1..Len(s) : s[i] = sep}
    IN  IF at = {} THEN <<s>>
        ELSE <<SubSeq(s, 1, Min(at) - 1)>> \o splitOn(SubSeq(s, Min(at) + 1, Len(s)), sep)

RECURSIVE commaCards(_)
\* the cards that processFlashcardContent makes of lines 'front,back'
commaCards(lines) ==
    IF lines = <<>> THEN <<>>
    ELSE LET line  == Head(lines)
             comma == indexOf(line, ",")
             front == trim(SubSeq(line, 1, comma))
             back  == trim(SubSeq(line, comma + 2, Len(line)))
         IN  (IF comma >= 0 THEN <<card(front, back)>> ELSE <<>>)
             \o commaCards(Tail(lines))

\* the body of processFlashcardContent
processFlashcardContent(content) ==
    LET flashcards == commaCards(filledLines(content))
    IN  IF Len(flashcards) > 0
        THEN currentFlashcards' = flashcards
        ELSE UNCHANGED currentFlashcards

\* [a-zA-Z0-9_]
isWordChar(c) ==
    c \in {"a", "b", "c", "d", "n", "r", "s", "x", "y", "z", "R", "_"} \/ isDigitChar(c)

\* name.replace(/[^a-zA-Z0-9_]/g, '_')
sanitized(name) == [i \in 1..Len(name) |-> IF isWordChar(name[i]) THEN name[i] ELSE "_"]

\* `section_${index + 1}`
numbered(index) ==
    <<"section_", CASE index = 1 -> "1" [] index = 2 -> "2" [] OTHER -> "3">>

RECURSIVE sectionLoop(_, _, _, _, _)
\* the loop of processFlashcardContentWithDelimiters over the lines of a
\* section that are left, and the entry it ends in
sectionLoop(lines, index, customName, sectionKey, processedContent) ==
    IF lines = <<>>
    THEN LET first == IF processedContent = <<>> THEN <<>> ELSE processedContent[1]
             named == (customName = null \/ Val(customName) = <<>>)
                      /\ Len(first) > 0 /\ Len(first) < 50
             name  == IF named THEN first
                      ELSE IF customName = null THEN <<>> ELSE Val(customName)
             key   == IF named
                      THEN (IF sanitized(first) # <<>> THEN sanitized(first)
                            ELSE numbered(index))
                      ELSE sectionKey
         IN  [key      |-> key,
              content  |-> join(processedContent),
              filename |-> IF name # <<>> THEN name ELSE key]
    ELSE LET line == trim(Head(lines))
         IN  IF line # <<>> /\ line[1] = "@"
             THEN LET renamed == trim(Tail(line))
                  IN  sectionLoop(Tail(lines), index, Some(renamed),
                                  IF sanitized(renamed) # <<>> THEN sanitized(renamed)
                                  ELSE numbered(index),
                                  processedContent)
             ELSE IF line # <<>>
             THEN sectionLoop(Tail(lines), index, customName, sectionKey,
                              Append(processedContent, line))
             ELSE sectionLoop(Tail(lines), index, customName, sectionKey,
                              processedContent)

\* the sections of a content with delimiters
sectionsOfContent(content) ==
    SelectSeq([i \in 1..Len(splitOn(content, Delimiter)) |->
                  trim(splitOn(content, Delimiter)[i])],
              LAMBDA section : Len(section) > 0)

RECURSIVE withSections(_, _, _)
\* the database after the sections from index on have been stored
withSections(database, sections, index) ==
    IF index > Len(sections) THEN database
    ELSE LET entry == sectionLoop(split(sections[index]), index, null,
                                  numbered(index), <<>>)
             keys  == DOMAIN database \cup {entry.key}
         IN  withSections([k \in keys |->
                              IF k = entry.key
                              THEN [content |-> entry.content, filename |-> entry.filename]
                              ELSE database[k]],
                          sections, index + 1)

\* the database after the onload of handleSingleFileWithDelimitersAsync
afterOnload(database, file, content) ==
    IF content = <<>> THEN database
    ELSE IF \E i \in 1..Len(content) : content[i] = Delimiter
    THEN withSections(database, sectionsOfContent(content), 1)
    ELSE [k \in DOMAIN database \cup {removeExtension(file.name)} |->
             IF k = removeExtension(file.name)
             THEN [content |-> content, filename |-> file.name]
             ELSE database[k]]

\* the batches that have reads going on
unfinished == SelectSeq(batches, LAMBDA batch : batch.pending # {})

\* what the handlers of the files leave alone
otherThanFiles == <<blockSourceInput, flashcardBlocks, currentBlockIndex, pasteInput,
                    blockCounter, blockTitle, timers, trail>>

\* handleFiles: the reads of all its files are started, none has ended
handleFiles(files) ==
    LET txtFiles == SelectSeq(files, isFlashcardFile)
    IN  /\ IF Len(txtFiles) = 0
           THEN alert' = NoTextFilesSelected /\ UNCHANGED batches
           ELSE /\ Len(unfinished) < MaxBatches
                /\ alert' = NoAlert
                /\ batches' = Append(unfinished,
                                     [files            |-> txtFiles,
                                      pending          |-> 1..Len(txtFiles),
                                      results          |-> [i \in {} |-> null],
                                      filesProcessed   |-> 0,
                                      lastProcessedFile |-> null,
                                      updates          |-> 0])
        /\ op' = "handleFiles"
        /\ returned' = null
        /\ UNCHANGED <<tempFlashcardDatabase, dropdown, currentSetName,
                       currentFlashcards, isReversed>>
        /\ UNCHANGED otherThanFiles

\* the read of file i of batch b ends, with a text or with an error (null):
\* onload or onerror of handleSingleFileWithDelimitersAsync, and the callback
\* that handleFiles gave to then()
fileRead(b, i, result) ==
    LET batch     == batches[b]
        file      == batch.files[i]
        content   == IF result = null THEN <<>> ELSE trim(Val(result))
        delimited == \E k \in 1..Len(content) : content[k] = Delimiter
        database  == afterOnload(tempFlashcardDatabase, file, content)
        processed == batch.filesProcessed + 1
        allDone   == result # null /\ processed = Len(batch.files)
        fileName  == removeExtension(file.name)
    IN  /\ i \in batch.pending
        /\ tempFlashcardDatabase' = database
        /\ dropdown' = IF delimited \/ allDone THEN DOMAIN database ELSE dropdown
        /\ batches' = [batches EXCEPT ![b] =
               [files            |-> batch.files,
                pending          |-> batch.pending \ {i},
                results          |-> [k \in DOMAIN batch.results \cup {i} |->
                                         IF k = i THEN result ELSE batch.results[k]],
                filesProcessed   |-> IF result = null THEN batch.filesProcessed
                                     ELSE processed,
                lastProcessedFile |-> IF result = null THEN batch.lastProcessedFile
                                     ELSE Some(i),
                updates          |-> batch.updates
                                     + (IF delimited THEN 1 ELSE 0)
                                     + (IF allDone THEN 1 ELSE 0)]]
        /\ IF allDone /\ fileName \in DOMAIN database
           THEN /\ processFlashcardContent(database[fileName].content)
                /\ currentSetName' = Some(fileName)
           ELSE UNCHANGED <<currentFlashcards, currentSetName>>
        /\ op' = "fileRead"
        /\ alert' = NoAlert
        /\ returned' = null
        /\ UNCHANGED isReversed
        /\ UNCHANGED otherThanFiles

\* a click on an item of the dropdown
selectFlashcardSet(key) ==
    /\ key \in dropdown
    /\ currentSetName' = Some(key)
    /\ IF key \in DOMAIN tempFlashcardDatabase
       THEN processFlashcardContent(tempFlashcardDatabase[key].content)
       ELSE UNCHANGED currentFlashcards
    /\ op' = "selectFlashcardSet"
    /\ alert' = NoAlert
    /\ returned' = null
    /\ UNCHANGED <<tempFlashcardDatabase, dropdown, batches, isReversed>>
    /\ UNCHANGED otherThanFiles

reverseFlashcards ==
    /\ isReversed' = ~isReversed
    /\ IF currentSetName # null /\ Val(currentSetName) \in DOMAIN tempFlashcardDatabase
       THEN /\ LET flashcards ==
                       LET lines == filledLines(tempFlashcardDatabase[Val(currentSetName)].content)
                           made  == commaCards(lines)
                       IN  [k \in 1..Len(made) |->
                               [front |-> made[k].back, back |-> made[k].front]]
               IN  IF Len(flashcards) > 0
                   THEN currentFlashcards' = flashcards
                   ELSE UNCHANGED currentFlashcards
            /\ alert' = NoAlert
       ELSE /\ alert' = NoSetLoaded
            /\ UNCHANGED currentFlashcards
    /\ op' = "reverseFlashcards"
    /\ returned' = null
    /\ UNCHANGED <<tempFlashcardDatabase, dropdown, batches, currentSetName>>
    /\ UNCHANGED otherThanFiles

\* files are dropped, their reads end in any order, sets are picked in the
\* dropdown and reversed
NextFiles ==
    \/ \E files \in FileLists : handleFiles(files) /\ UNCHANGED otherThanCards
    \/ \E b \in 1..Len(batches) : \E i \in batches[b].pending :
       \E result \in {null} \cup {Some(text) : text \in FileContents} :
           fileRead(b, i, result) /\ UNCHANGED otherThanCards
    \/ \E key \in dropdown : selectFlashcardSet(key) /\ UNCHANGED otherThanCards
    \/ reverseFlashcards /\ UNCHANGED otherThanCards

SpecFiles == Init /\ [][NextFiles]_vars

-----------------------------------------------------------------------------
(* FEN board *)

\* what is typed or pasted into the input textarea: a FEN in the variant
\* format, a placement alone, a word, a FEN whose placement has two numbers in
\* a row, a FEN with a tab after the placement, a blank
FenInputs ==
    { <<"[Variant \"From Position\"]", "[FEN \"",
        AfterE4, " ", "b", " ", "KQkq", " ", "e3", " ", "0", " ", "1", "\"]">>,
      <<AfterE4>>,
      <<NoPlacement>>,
      <<StartWith44, " ", "w", " ", "KQkq", " ", "-", " ", "0", " ", "1">>,
      <<AfterE4, "\t", "b", " ", "KQkq", " ", "e3", " ", "0", " ", "1">>,
      <<" ">> }

\* the drags of a piece: from a square to a square or off the board
Drops == { <<"e2", "e4">>, <<"e7", "e5">>, <<"e2", "e5">>, <<"e7", "offboard">> }

\* the board shows a piece on the square
pieceOn(placement, square) ==
    \/ square = "e2" /\ placement \in {StartPlacement, AfterE5}
    \/ square = "e7" /\ placement \in {StartPlacement, AfterE4}

\* the placement that the board shows once the piece is dropped on target
pieceMoved(placement, source, target) ==
    CASE placement = StartPlacement /\ source = "e2" /\ target = "e4" -> AfterE4
      [] placement = StartPlacement /\ source = "e7" /\ target = "e5" -> AfterE5
      [] placement = AfterE4 /\ source = "e7" /\ target = "e5" -> AfterE4E5
      [] placement = AfterE5 /\ source = "e2" /\ target = "e4" -> AfterE4E5
      [] OTHER -> placement

\* Chessboard.js takes the text for a placement: eight ranks of eight squares
validPosition(text) ==
    /\ Len(text) = 1
    /\ text[1] \in {StartPlacement, AfterE4, AfterE4E5, AfterE5, StartWith44}

\* the placement that board.position(text) leaves on the board
positioned(text) ==
    IF ~validPosition(text) THEN board
    ELSE IF text[1] = StartWith44 THEN StartPlacement
    ELSE text[1]

\* fenString.split(' ')[0]
positionPart(fenString) ==
    LET spaces == {i \in 1..Len(fenString) : fenString[i] = " "}
    IN  IF spaces = {} THEN fenString ELSE SubSeq(fenString, 1, Min(spaces) - 1)

isBlank(c) == c \in {" ", "\t", "\n"}

RECURSIVE splitSpaces(_)
\* fen.split(/\s+/)
splitSpaces(text) ==
    LET blanks == {i \in 1..Len(text) : isBlank(text[i])}
    IN  IF blanks = {} THEN <<text>>
        ELSE LET from == Min(blanks)
                 rest == {i \in (from + 1)..Len(text) : ~isBlank(text[i])}
             IN  <<SubSeq(text, 1, from - 1)>>
                 \o (IF rest = {} THEN << <<>> >>
                     ELSE splitSpaces(SubSeq(text, Min(rest), Len(text))))

\* validate_fen(fen).valid of chess.js
validFen(fen) ==
    LET tokens == splitSpaces(fen)
    IN  /\ Len(tokens) = 6
        /\ \A k \in 1..6 : Len(tokens[k]) = 1
        /\ tokens[6][1] \in {"1", "2", "3"}
        /\ tokens[5][1] \in {"0", "1", "2", "3"}
        /\ tokens[4][1] \in {"-", "e3", "e6"}
        /\ tokens[3][1] \in {"KQkq", "-"}
        /\ tokens[2][1] \in {"w", "b"}
        /\ tokens[1][1] \in {StartPlacement, AfterE4, AfterE4E5, AfterE5}
        /\ ~(tokens[4][1] = "e3" /\ tokens[2][1] = "w")
        /\ ~(tokens[4][1] = "e6" /\ tokens[2][1] = "b")

\* chess.fen()
fenOf(engine) ==
    <<engine.placement, " ", engine.turn, " ", engine.castling, " ", engine.ep, " ",
      engine.half, " ", engine.full>>

\* the engine after chess.load(fen): as it was when the FEN is not valid
loadedEngine(engine, fen) ==
    IF ~validFen(fen) THEN engine
    ELSE LET tokens == splitSpaces(fen)
             position == [placement |-> tokens[1][1], turn |-> tokens[2][1],
                          castling |-> tokens[3][1], ep |-> tokens[4][1],
                          half |-> tokens[5][1], full |-> tokens[6][1]]
         IN  [placement |-> position.placement, turn |-> position.turn,
              castling |-> position.castling, ep |-> position.ep,
              half |-> position.half, full |-> position.full,
              history |-> <<>>,
              first |-> <<position.turn, position.full>>,
              setup |-> IF fenOf(position) = StandardFen THEN null
                        ELSE Some(fenOf(position))]

\* the number after n
nextNumber(n) == CASE n = "0" -> "1" [] n = "1" -> "2" [] OTHER -> "3"

\* the move that chess.js finds for a drop: null when it finds none
legalMove(engine, source, target) ==
    CASE engine.placement = StartPlacement /\ engine.turn = "w"
             /\ source = "e2" /\ target = "e4" ->
             Some([san |-> "e4", placement |-> AfterE4, ep |-> "e3"])
      [] engine.placement = AfterE4 /\ engine.turn = "b"
             /\ source = "e7" /\ target = "e5" ->
             Some([san |-> "e5", placement |-> AfterE4E5, ep |-> "e6"])
      [] engine.placement = StartPlacement /\ engine.turn = "b"
             /\ source = "e7" /\ target = "e5" ->
             Some([san |-> "e5", placement |-> AfterE5, ep |-> "e6"])
      [] engine.placement = AfterE5 /\ engine.turn = "w"
             /\ source = "e2" /\ target = "e4" ->
             Some([san |-> "e4", placement |-> AfterE4E5, ep |-> "e3"])
      [] OTHER -> null

\* the engine after chess.move() made the move
movedEngine(engine, move) ==
    [placement |-> move.placement,
     turn      |-> IF engine.turn = "w" THEN "b" ELSE "w",
     castling  |-> engine.castling,
     ep        |-> move.ep,
     half      |-> "0",
     full      |-> IF engine.turn = "b" THEN nextNumber(engine.full) ELSE engine.full,
     history   |-> Append(engine.history, move.san),
     first     |-> engine.first,
     setup     |-> engine.setup]

RECURSIVE moveText(_, _, _, _)
\* the moves of chess.pgn(): numbered before a move of White and before a
\* first move of Black
moveText(history, turn, number, isFirst) ==
    IF history = <<>> THEN <<>>
    ELSE (IF isFirst THEN <<>> ELSE <<" ">>)
         \o (IF turn = "w" THEN <<number, ".", " ">>
             ELSE IF isFirst THEN <<number, ".", " ", "...", " ">>
             ELSE <<>>)
         \o <<Head(history)>>
         \o moveText(Tail(history),
                     IF turn = "w" THEN "b" ELSE "w",
                     IF turn = "b" THEN nextNumber(number) ELSE number,
                     FALSE)

\* chess.pgn(): the SetUp and FEN headers of a loaded position, then the moves
pgnOf(engine) ==
    (IF engine.setup = null THEN <<>>
     ELSE <<"[SetUp \"1\"]", "\n", "[FEN \"">> \o Val(engine.setup) \o <<"\"]", "\n">>
          \o (IF engine.history # <<>> THEN <<"\n">> ELSE <<>>))
    \o moveText(engine.history, engine.first[1], engine.first[2], TRUE)

RECURSIVE withoutHeaders(_)
\* pgn.replace(/\[[^\]]*\]\s*/g, '')
withoutHeaders(text) ==
    IF text = <<>> THEN <<>>
    ELSE IF Head(text) = "[SetUp \"1\"]"
    THEN withoutHeaders(trimStart(Tail(text)))
    ELSE IF Head(text) = "[FEN \"" /\ \E i \in 1..Len(text) : text[i] = "\"]"
    THEN withoutHeaders(trimStart(SubSeq(text,
                            Min({i \in 1..Len(text) : text[i] = "\"]"}) + 1,
                            Len(text))))
    ELSE <<Head(text)>> \o withoutHeaders(Tail(text))

\* '[Variant "From Position"][FEN "' + fen + '"]'
fenVariant(fen) == <<"[Variant \"From Position\"]", "[FEN \"">> \o fen \o <<"\"]">>

\* '[Variant "From Position"]\n[FEN "' + startFen + '"]\n\n' + pgnMoves
customPgn(startFen, pgnMoves) ==
    <<"[Variant \"From Position\"]", "\n", "[FEN \"">> \o startFen
    \o <<"\"]", "\n", "\n">> \o pgnMoves

\* content.match(/\[FEN\s+"([^"]+)"\]/)[1], or the content when there is no match
fenStringOf(content) ==
    LET opens == {i \in 1..Len(content) :
                     /\ content[i] = "[FEN \""
                     /\ \E j \in (i + 2)..Len(content) : content[j] = "\"]"}
    IN  IF opens = {} THEN content
        ELSE LET i == Min(opens)
                 j == Min({k \in (i + 2)..Len(content) : content[k] = "\"]"})
             IN  SubSeq(content, i + 1, j - 1)

\* what the handlers of the board leave alone
otherThanChess == <<reportVars, chatVars, cardVars>>

\* typing or pasting into the input textarea
setMyTextArea(text) ==
    /\ myTextArea' = text
    /\ op' = "setMyTextArea"
    /\ alert' = NoAlert
    /\ returned' = null
    /\ UNCHANGED <<board, chess, startingFen, myTextArea2, moveHistoryTextArea,
                   lastLoad, played>>

\* onDrop, were the current-position textarea written before the move is tried
onDropWritingFirst(source, target) ==
    LET move == legalMove(chess, source, target)
    IN  /\ pieceOn(board, source)
        /\ myTextArea2' = fenVariant(fenOf(IF move = null THEN chess
                                          ELSE movedEngine(chess, Val(move))))
        /\ IF move = null
           THEN /\ returned' = Some("snapback")
                /\ UNCHANGED <<board, chess, moveHistoryTextArea, played>>
           ELSE LET engine   == movedEngine(chess, Val(move))
                    pgnMoves == trim(withoutHeaders(pgnOf(engine)))
                    startFen == IF startingFen # null THEN Val(startingFen)
                                ELSE StandardFen
                IN  /\ chess' = engine
                    /\ board' = pieceMoved(board, source, target)
                    /\ moveHistoryTextArea' = customPgn(startFen, pgnMoves)
                    /\ played' = Append(played, Val(move).san)
                    /\ returned' = null
        /\ op' = "onDrop"
        /\ alert' = NoAlert
        /\ UNCHANGED <<startingFen, myTextArea, lastLoad>>

\* a piece of the board is dragged from source and dropped on target
onDrop(source, target) ==
    LET move == legalMove(chess, source, target)
    IN  /\ pieceOn(board, source)
        /\ IF move = null
           THEN /\ returned' = Some("snapback")
                /\ UNCHANGED <<board, chess, moveHistoryTextArea, myTextArea2, played>>
           ELSE LET engine   == movedEngine(chess, Val(move))
                    pgnMoves == trim(withoutHeaders(pgnOf(engine)))
                    startFen == IF startingFen # null THEN Val(startingFen)
                                ELSE StandardFen
                IN  /\ chess' = engine
                    /\ board' = pieceMoved(board, source, target)
                    /\ moveHistoryTextArea' = customPgn(startFen, pgnMoves)
                    /\ myTextArea2' = fenVariant(fenOf(engine))
                    /\ played' = Append(played, Val(move).san)
                    /\ returned' = null
        /\ op' = "onDrop"
        /\ alert' = NoAlert
        /\ UNCHANGED <<startingFen, myTextArea, lastLoad>>

\* the button 'Load FEN to Board'
loadFenVariantOnBoard ==
    LET content      == trim(myTextArea)
        fenString    == fenStringOf(content)
        fullFen      == positionPart(fenString) \o <<" ", "w", " ", "KQkq", " ", "-",
                                                    " ", "0", " ", "1">>
        loaded       == validFen(fenString)
    IN  /\ IF content = <<>>
           THEN /\ alert' = TextareaEmpty
                /\ UNCHANGED <<board, chess, startingFen, myTextArea2,
                               moveHistoryTextArea, lastLoad, played>>
           ELSE /\ board' = positioned(positionPart(fenString))
                /\ chess' = IF loaded THEN loadedEngine(chess, fenString)
                            ELSE loadedEngine(chess, fullFen)
                /\ startingFen' = IF loaded THEN Some(fenString) ELSE Some(fullFen)
                /\ moveHistoryTextArea' = <<>>
                /\ myTextArea2' = fenVariant(fenString)
                /\ lastLoad' = Some(fenString)
                /\ played' = <<>>
                /\ alert' = NoAlert
        /\ op' = "loadFenVariantOnBoard"
        /\ returned' = null
        /\ UNCHANGED myTextArea

\* the button 'Reset Board'
resetBoard ==
    /\ board' = StartPlacement
    /\ chess' = loadedEngine(chess, StandardFen)
    /\ startingFen' = Some(StandardFen)
    /\ moveHistoryTextArea' = <<>>
    /\ myTextArea' = <<>>
    /\ myTextArea2' = <<>>
    /\ lastLoad' = null
    /\ played' = <<>>
    /\ op' = "resetBoard"
    /\ alert' = NoAlert
    /\ returned' = null

\* FENs are typed and loaded, pieces are dropped, the board is reset
NextBoard ==
    \/ \E text \in FenInputs : setMyTextArea(text) /\ UNCHANGED otherThanChess
    \/ \E drop \in Drops : onDrop(drop[1], drop[2]) /\ UNCHANGED otherThanChess
    \/ loadFenVariantOnBoard /\ UNCHANGED otherThanChess
    \/ resetBoard /\ UNCHANGED otherThanChess

SpecBoard == Init /\ [][NextBoard]_vars

-----------------------------------------------------------------------------
(* Vocabulary of the claims *)

\* the text stored under the literature file's name: null when there is none
litText ==
    IF literatureFile # null /\ Val(literatureFile) \in DOMAIN loadedReports
    THEN Some(loadedReports[Val(literatureFile)])
    ELSE null

\* the lines of the literature document
litLines == split(Val(litText))

\* the 0-based cursor
cursor == Val(literatureFoundLine) - 1

\* n clamped to [1, 5000]
clamped(n) == Max({1, Min({5000, n})})

\* the page size in effect
pageSize == clamped(literatureNumLines)

\* the window of pageSize lines that starts at line start
windowAt(start) ==
    join([i \in 1..Min({pageSize, Len(litLines) - start}) |-> litLines[start + i]])

NotFound == {NotFoundAtAll, NoMoreOccurrences, NoPrevOccurrences}

forwardOps == {"searchLiterature", "findNextLiterature"}

searchOps == forwardOps \cup {"findPrevLiterature"}

\* the line a forward search starts from: 0 for Go, the line after the cursor
\* for find-next
fromLine ==
    IF op' = "searchLiterature" \/ literatureFoundLine = null
    THEN 0 ELSE Val(literatureFoundLine)

\* the lines from `from` on whose lowercase text contains t
hitsFrom(from, t) ==
    {i \in from..(Len(litLines) - 1) : includes(toLowerCase(litLines[i + 1]), t)}

\* the lines up to `upto` whose lowercase text contains t
hitsUpTo(upto, t) ==
    {i \in 0..Min({upto, Len(litLines) - 1}) : includes(toLowerCase(litLines[i + 1]), t)}

-----------------------------------------------------------------------------
(* C1 *)

\* C1: in every reachable state a set cursor indexes an existing line of the
\* current literature document: 0 <= cursor < number of its lines.
C1_CursorInRange ==
    literatureFoundLine # null =>
        /\ litText # null
        /\ 0 <= cursor
        /\ cursor < Len(litLines)

-----------------------------------------------------------------------------
(* C2 *)

\* the active literature document: the literature file and the text under its name
activeDocument == <<literatureFile, litText>>

\* C2: whenever the active literature document changes (another file becomes
\* the literature file, or the text under its name is replaced), the cursor is
\* reset to unset and the displayed window is cleared.
C2_ChangeResetsCursor ==
    [][activeDocument' # activeDocument =>
          /\ literatureFoundLine' = null
          /\ literatureDisplayContent' = null]_vars

-----------------------------------------------------------------------------
(* C3 *)

-----------------------------------------------------------------------------
(* C4 *)

\* C4: a search that fails with NotFound (Go, find-next or find-previous)
\* leaves the found line and the displayed window as they were.
C4_NotFoundChangesNothing ==
    [][(op' \in searchOps /\ alert' \in NotFound) => UNCHANGED litVars]_vars

\* a find-next has failed with the cursor set
C4_Witness ==
    /\ op = "findNextLiterature"
    /\ alert = NoMoreOccurrences
    /\ literatureFoundLine # null
    /\ literatureDisplayContent # null

-----------------------------------------------------------------------------
(* C5 *)

\* C5: a search fails with NoDocument when no literature document is loaded,
\* and with EmptyTerm when one is loaded and the term is empty or blank; both
\* leave the found line and the window alone, and the two alerts differ from
\* each other and from the NotFound alerts.
C5_SearchPreconditions ==
    [][op' \in searchOps =>
          /\ litText = null => (alert' = NoDocument /\ UNCHANGED litVars)
          /\ (litText # null /\ trim(literatureSearchTerm) = <<>>) =>
                 (alert' = EmptyTerm /\ UNCHANGED litVars)
          /\ NoDocument # EmptyTerm
          /\ {NoDocument, EmptyTerm} \cap NotFound = {}]_vars

-----------------------------------------------------------------------------
(* C6 *)

\* the line a backward search starts from
startLine == IF literatureFoundLine # null THEN cursor - 1 ELSE Len(litLines) - 1

\* C6: find-previous scans from cursor - 1 when the cursor is set and from the
\* last line when it is unset, sets the cursor to the greatest matching index
\* not above that line, and fails with NotFound when there is none (at once
\* when the cursor is at line 0, which stays the cursor).
C6_PreviousMatch ==
    [][(/\ op' = "findPrevLiterature"
        /\ litText # null
        /\ Val(litText) # <<>>
        /\ trim(literatureSearchTerm) # <<>>) =>
          LET hits == hitsUpTo(startLine, trim(toLowerCase(literatureSearchTerm)))
          IN  IF hits = {}
              THEN alert' = NoPrevOccurrences /\ UNCHANGED litVars
              ELSE /\ alert' = NoAlert
                   /\ literatureFoundLine' = Some(Max(hits) + 1)]_vars

-----------------------------------------------------------------------------
(* C7 *)

C7_WitnessEnd ==
    /\ op = "nextLinesLiterature"
    /\ alert = EndOfText
    /\ literatureFoundLine # null

-----------------------------------------------------------------------------
(* C8 *)

\* C8: next-lines fails with NoDocument when no literature document is loaded
\* and with NoCursor when one is loaded and the cursor is unset; both leave the
\* found line and the window alone.
C8_NextPagePreconditions ==
    [][op' = "nextLinesLiterature" =>
          /\ litText = null => (alert' = NoDocument /\ UNCHANGED litVars)
          /\ (litText # null /\ literatureFoundLine = null) =>
                 (alert' = NoCursor /\ UNCHANGED litVars)]_vars

-----------------------------------------------------------------------------
(* C9 *)

\* a next-lines that succeeded
pagedOn == op = "nextLinesLiterature" /\ alert = NoAlert

\* C9, first part: every successful next-lines moves the cursor up by exactly
\* pageSize, to a line of the document, so that a run of them is strictly
\* increasing and ends after at most (number of lines) calls.
C9_StepsOfPageSize ==
    (op' = "nextLinesLiterature" /\ alert' = NoAlert) =>
        /\ literatureFoundLine # null
        /\ pageSize >= 1
        /\ literatureFoundLine' = Some(Val(literatureFoundLine) + pageSize)
        /\ litText' # null
        /\ Val(literatureFoundLine') - 1 < Len(split(Val(litText')))

\* C9 as stated: when the next-lines after a successful one fails with
\* EndOfText, the cursor that last success left satisfies
\* cursor + pageSize < number of lines.
C9_AsStated ==
    [][/\ C9_StepsOfPageSize
       /\ (pagedOn /\ op' = "nextLinesLiterature" /\ alert' = EndOfText) =>
              cursor + pageSize < Len(litLines)]_vars

\* C9, amended: ... the cursor that last success left satisfies
\* cursor < number of lines <= cursor + pageSize.
C9_PagingToTheEnd ==
    [][/\ C9_StepsOfPageSize
       /\ (pagedOn /\ op' = "nextLinesLiterature" /\ alert' = EndOfText) =>
              /\ cursor < Len(litLines)
              /\ Len(litLines) <= cursor + pageSize
              /\ UNCHANGED litVars]_vars

\* a next-lines has failed with EndOfText right after one that succeeded
C9_Witness ==
    /\ op = "nextLinesLiterature"
    /\ alert = EndOfText
    /\ literatureFoundLine # null
    /\ cursor >= pageSize
    /\ cursor < Len(litLines)
    /\ literatureDisplayContent = Some(windowAt(cursor))

-----------------------------------------------------------------------------
(* C10 *)

\* C10: typing the integer n into the "# of lines" input makes the page size
\* of later navigation n clamped to [1, 5000]: 1 for n <= 0, 5000 for n > 5000.
C10_PageSizeIsClamped ==
    [][\A text \in NumTexts :
          (setLiteratureNumLines(text) /\ parseInt(text) # null) =>
              numLinesOf(literatureNumLines') = clamped(Val(parseInt(text)))]_vars

-----------------------------------------------------------------------------
(* C11 *)

\* the handlers that move through the literature document
navigationOps == searchOps \cup {"nextLinesLiterature"}

\* the number of lines of a text
lineCount(text) == Cardinality({i \in 1..Len(text) : text[i] = "\n"}) + 1

-----------------------------------------------------------------------------
(* C12 *)

\* C12: every line number given out is 1-based, the 0-based cursor plus 1: the
\* found line after each successful Go, find-next, find-previous and
\* next-lines (the window shown starts at the line before it), and the value
\* the search itself returns.
C12_LineNumbersAreOneBased ==
    [][(op' \in navigationOps /\ alert' = NoAlert) =>
          /\ Val(literatureFoundLine') >= 1
          /\ literatureDisplayContent' = Some(windowAt(Val(literatureFoundLine') - 1))
          /\ (returned' # null => Val(returned') = Val(literatureFoundLine'))]_vars

-----------------------------------------------------------------------------
(* C13 *)

\* what a failing navigation reports to its caller
failures == {NoDocument, EmptyTerm, NoCursor, EndOfText} \cup NotFound

\* C13: in every reachable state, whatever happened to the literature document
\* while a cursor was set, a navigation either succeeds or reports one of its
\* failures; none throws.
C13_NavigationNeverThrows ==
    [][op' \in navigationOps => alert' \in {NoAlert} \cup failures]_vars

-----------------------------------------------------------------------------
(* C14 *)

\* C14: a loaded document of zero characters counts as a loaded document: with
\* an empty text as the literature document, a forward search for a term that
\* is not blank fails with NotFound, not with NoDocument.
C14_EmptyDocumentIsLoaded ==
    [][(/\ op' \in forwardOps
        /\ litText = Some(<<>>)
        /\ trim(literatureSearchTerm) # <<>>) => alert' \in NotFound]_vars

-----------------------------------------------------------------------------
(* C15 *)

\* Texts a file may hold when lines of the document are searched for: those of
\* Docs, and one with an uppercase line, an empty line and a line that begins
\* with a space and is the only one to hold its letter.
LineDocs == Docs \cup { <<"B", "\n", "\n", " ", "a">> }

\* what the reads of a set of files may give, of the texts of LineDocs
LineReadsOf(names) == [names -> {null} \cup {Some(d) : d \in LineDocs}]

\* the search input is given the text of a line of the literature document
LineTerms == IF litText = null THEN {} ELSE {litLines[i] : i \in 1..Len(litLines)}

\* the user loads folders, picks a literature file, types one of its lines
\* into the search input and presses Go, Next or Prev
NextLineSearch ==
    \/ \E files \in Folders :
           handleFolderSelect(files) /\ UNCHANGED otherThanReports
    \/ \E k \in 1..Len(uploads) :
           \E read \in LineReadsOf({uploads[k].textFiles[i] : i \in 1..Len(uploads[k].textFiles)}) :
               handleFolderSelectResume(k, read) /\ UNCHANGED otherThanReports
    \/ \E filename \in DOMAIN loadedReports :
           toggleLiterature(filename) /\ UNCHANGED otherThanReports
    \/ \E text \in LineTerms :
           setLiteratureSearchTerm(text) /\ UNCHANGED otherThanReports
    \/ goSearch /\ UNCHANGED otherThanReports
    \/ findNextLiterature /\ UNCHANGED otherThanReports
    \/ findPrevLiterature /\ UNCHANGED otherThanReports

SpecLineSearch == Init /\ [][NextLineSearch]_vars

\* the indexes of the lines of the literature document whose text is the
\* search term
linesOfTerm == {i \in 0..(Len(litLines) - 1) : litLines[i + 1] = literatureSearchTerm}

\* C15: for every document and every line index i of it, Go with the text of
\* line i as the term succeeds and sets the cursor to an index <= i.
C15_AsStated ==
    [][(op' = "searchLiterature" /\ litText # null) =>
          \A i \in linesOfTerm : alert' = NoAlert /\ cursor' <= i]_vars

\* C15, amended: for every document and every line index i of it whose text
\* is not blank, Go with the text of line i as the term succeeds and sets the
\* cursor to an index <= i.
C15_LineIsFound ==
    [][(op' = "searchLiterature" /\ litText # null) =>
          \A i \in linesOfTerm :
              trim(litLines[i + 1]) # <<>> => alert' = NoAlert /\ cursor' <= i]_vars

\* Go with the text of a line as the term has stopped at an earlier line
C15_Witness ==
    /\ op = "searchLiterature"
    /\ alert = NoAlert
    /\ litText # null
    /\ \E i \in linesOfTerm : cursor < i

-----------------------------------------------------------------------------
(* C16 *)

\* C16: for every document and term, a successful Go immediately followed by
\* find-previous with the same term fails with NotFound and leaves the cursor
\* on the match that Go found.
C16_NothingBeforeFirstMatch ==
    [][(op = "searchLiterature" /\ alert = NoAlert /\ op' = "findPrevLiterature") =>
          /\ alert' \in NotFound
          /\ UNCHANGED literatureFoundLine]_vars

\* find-previous has failed on the first match of the document, which is not
\* its first line
C16_Witness ==
    /\ op = "findPrevLiterature"
    /\ alert = NoPrevOccurrences
    /\ literatureFoundLine # null
    /\ litText # null
    /\ cursor > 0
    /\ hitsUpTo(cursor, trim(toLowerCase(literatureSearchTerm))) = {cursor}

-----------------------------------------------------------------------------
(* C17 *)

\* the handlers that load, replace or remove the literature document
documentOps == {"toggleLiterature", "removeReport", "clearAllReports",
                "handlePreloadedFolderSelect loaded"}

\* C17: a change of the page size and an edit of the search term change
\* neither the cursor nor the window displayed; the cursor is set to a line
\* only by Go, find-next, find-previous and next-lines, and is unset only by a
\* load, a replacement or a removal of the document.
C17_CursorFrame ==
    [][/\ op' \in {"setLiteratureNumLines", "setLiteratureSearchTerm"} =>
              UNCHANGED litVars
       /\ literatureFoundLine' # literatureFoundLine =>
              IF literatureFoundLine' # null
              THEN op' \in navigationOps
              ELSE op' \in documentOps]_vars

\* the page size was changed under a window, which still has its old size
C17_Witness ==
    /\ op = "setLiteratureNumLines"
    /\ literatureFoundLine # null
    /\ litText # null
    /\ cursor < Len(litLines)
    /\ literatureDisplayContent # Some(windowAt(cursor))
    /\ lineCount(Val(literatureDisplayContent)) > pageSize

-----------------------------------------------------------------------------
(* C18 *)

\* the search term as the search compares it
searchLower == trim(toLowerCase(literatureSearchTerm))

\* C18: Go stops at the first line that contains the term; each find-next that
\* follows a successful Go or find-next stops at the next line below the
\* cursor that contains the term, and when there is none it fails with the
\* 'no more occurrences' notice and leaves the cursor and the window; find-next
\* with the cursor unset does what a search from line 0 does.
C18_FindNextVisitsMatches ==
    [][/\ (op' = "searchLiterature" /\ alert' = NoAlert) =>
              cursor' = Min(hitsFrom(0, searchLower))
       /\ (op \in forwardOps /\ alert = NoAlert /\ op' = "findNextLiterature") =>
              LET later == hitsFrom(cursor + 1, searchLower)
              IN  IF later = {}
                  THEN alert' = NoMoreOccurrences /\ UNCHANGED litVars
                  ELSE alert' = NoAlert /\ cursor' = Min(later)
       /\ (literatureFoundLine = null /\ op' = "findNextLiterature") =>
              searchLiterature(0)]_vars

\* find-next has failed on the last of several matches
C18_Witness ==
    /\ op = "findNextLiterature"
    /\ alert = NoMoreOccurrences
    /\ literatureFoundLine # null
    /\ litText # null
    /\ Cardinality(hitsFrom(0, searchLower)) >= 2
    /\ cursor = Max(hitsFrom(0, searchLower))
    /\ literatureDisplayContent = Some(windowAt(cursor))

-----------------------------------------------------------------------------
(* C19 *)

\* C19: whatever navigation and changes of the page size came before, the
\* window of a successful next-lines starts at the line right after the last
\* line of the window displayed before the call.
C19_NextPageContinuesDisplay ==
    [][(op' = "nextLinesLiterature" /\ alert' = NoAlert) =>
          cursor' = cursor + lineCount(Val(literatureDisplayContent))]_vars

-----------------------------------------------------------------------------
(* C20 *)

\* the literature file, the cursor and the window are all unset
allUnset ==
    /\ literatureFile = null
    /\ literatureFoundLine = null
    /\ literatureDisplayContent = null

\* C20: removing the literature file, unsetting it with toggleLiterature and
\* clearing all reports leave the literature file, the cursor and the window
\* unset; removing another file leaves the literature file, the cursor, the
\* window and the search term as they were.
C20_RemovalFrame ==
    [][/\ op' = "clearAllReports" => allUnset'
       /\ (op' = "toggleLiterature" /\ literatureFile' = null) => allUnset'
       /\ op' = "removeReport" =>
              IF /\ literatureFile # null
                 /\ Val(literatureFile) \in DOMAIN loadedReports \ DOMAIN loadedReports'
              THEN allUnset'
              ELSE UNCHANGED <<literatureFile, litVars, literatureSearchTerm>>]_vars

\* a file that is not the literature file was removed under a set cursor
C20_Witness ==
    /\ op = "removeReport"
    /\ literatureFile # null
    /\ literatureFoundLine # null
    /\ literatureDisplayContent # null
    /\ literatureSearchTerm # <<>>

-----------------------------------------------------------------------------
(* C21 *)

\* the loaded files that are not the literature file and have at most
\* MAX_CHARS_FOR_CHAT characters
sendable ==
    {f \in DOMAIN loadedReports :
        Some(f) # literatureFile /\ Len(loadedReports[f]) <= MAX_CHARS_FOR_CHAT}

\* the text of a system prompt: empty when there is none
promptText(prompt) == IF prompt = null THEN <<>> ELSE Val(prompt)

\* the files a prompt text gives the content of, each with that content
sectionsOf(text) ==
    {<<text[i + 1],
       SubSeq(text, i + 3, Min({e \in (i + 3)..Len(text) : text[e] = "\n\n"}) - 1)>> :
        i \in {k \in 1..Len(text) : text[k] = "--- FILE: "}}

\* the files a prompt text gives the name of only
namedOnlyIn(text) ==
    {text[k] : k \in {i \in 1..Len(text) :
                         /\ text[i] \in TextNames
                         /\ (i = 1 \/ text[i - 1] # "--- FILE: ")}}

\* C21: the system prompt built for a chat request holds the content of
\* exactly the loaded files that are not the literature file and have at most
\* MAX_CHARS_FOR_CHAT characters; the literature file and the longer files are
\* in it by name only, and the files it reports as left out are exactly the
\* other loaded files.
C21_PromptHoldsSendableFiles ==
    [][(op' = "sendMessage" /\ isLoading') =>
          LET text == promptText(requests'[Len(requests')].systemPrompt)
          IN  /\ sectionsOf(text) = {<<f, loadedReports[f]>> : f \in sendable}
              /\ namedOnlyIn(text) = DOMAIN loadedReports \ sendable]_vars

\* a request is in flight whose prompt holds a file of exactly
\* MAX_CHARS_FOR_CHAT characters and names the literature file
C21_Witness ==
    /\ op = "sendMessage"
    /\ isLoading
    /\ literatureFile # null
    /\ \E f \in sendable : Len(loadedReports[f]) = MAX_CHARS_FOR_CHAT
    /\ namedOnlyIn(promptText(requests[1].systemPrompt)) = {Val(literatureFile)}
    /\ sectionsOf(promptText(requests[1].systemPrompt)) # {}

-----------------------------------------------------------------------------
(* C22 *)

\* what a send step and a settle step do, for a send that `accepted' lets past
\* the checks of sendMessage
exchange(accepted) ==
    /\ (op' = "sendMessage" /\ accepted) =>
          /\ isLoading'
          /\ messages' = Append(messages, [role |-> "user", content |-> inputValue])
          /\ Len(requests') = 1
          /\ requests'[1].newMessages = messages'
    /\ (op' = "sendMessage settled") =>
          /\ isLoading
          /\ ~isLoading'
          /\ \E outcome \in Outcomes :
                 messages' = Append(requests[1].newMessages, assistantMessage(outcome))
          /\ requests' = <<>>
    /\ isLoading => requests' \in {requests, <<>>}

\* C22 as stated: a send with an input that is not blank and an API key or the
\* shared key present sets isLoading, and the end of the request, whatever it
\* is, unsets isLoading and leaves the messages of the send, the user message
\* and one assistant message; no second send starts while isLoading.
C22_AsStated ==
    [][exchange(trim(inputValue) # <<>> /\ (apiKey # "" \/ useSharedKey))]_vars

\* C22: a send with an input that is not blank and an API key present, or the
\* shared key with the ChatGPT provider, sets isLoading, and the end of the
\* request, whatever it is, unsets isLoading and leaves the messages of the
\* send, the user message and one assistant message, the reply or
\* 'Error: <message>'; no second send starts while isLoading.
C22_SendIsAnswered ==
    [][exchange(trim(inputValue) # <<>> /\ (apiKey # "" \/ ~needsApiKey))]_vars

\* a request that failed has been answered with an error message while the
\* chat already held an exchange
C22_Witness ==
    /\ op = "sendMessage settled"
    /\ ~isLoading
    /\ Len(messages) = 4
    /\ messages[3].role = "user"
    /\ messages[4] = [role |-> "assistant",
                      content |-> <<"Error: ", "Failed to fetch">>]

-----------------------------------------------------------------------------
(* C28 *)

\* the found line and the window are set or unset together
setTogether == (literatureFoundLine = null) <=> (literatureDisplayContent = null)

\* without a literature file neither is set
unsetWithoutFile ==
    literatureFile = null => (literatureFoundLine = null /\ literatureDisplayContent = null)

\* a found line that is set is not 0
foundLineNotZero == literatureFoundLine # Some(0)

\* the window is made of lines of the literature document of the moment, from
\* the line of the cursor on
windowIsSliceAtCursor ==
    literatureDisplayContent # null =>
        /\ literatureFile # null
        /\ Val(literatureFile) \in DOMAIN loadedReports
        /\ LET shown == Val(literatureDisplayContent)
               n     == lineCount(shown)
           IN  /\ cursor + n <= Len(litLines)
               /\ shown = join(SubSeq(litLines, cursor + 1, cursor + n))

\* C28: in every state the found line is null exactly when the displayed
\* window is null, both are null when there is no literature file, a found
\* line that is set is not 0, and the displayed window is the slice of the
\* literature document of the moment that starts at the cursor.
C28_CursorAndWindowAgree ==
    setTogether /\ unsetWithoutFile /\ foundLineNotZero /\ windowIsSliceAtCursor

-----------------------------------------------------------------------------
(* C29 *)

\* C29: in every state literatureFile is null or the name of a file that
\* loadedReports holds, whatever the order of uploads, loads of preloaded
\* folders and their completions, removals, toggles and clear-all.
C29_LiteratureFileIsLoaded ==
    literatureFile = null \/ Val(literatureFile) \in DOMAIN loadedReports

\* a file has been removed while another one stays the literature file
C29_Witness ==
    /\ op = "removeReport"
    /\ literatureFile # null
    /\ Val(literatureFile) \in DOMAIN loadedReports

-----------------------------------------------------------------------------
(* C23 *)

\* the number of blocks
B == Len(flashcardBlocks)

\* C23: with B >= 1 scanned blocks the index stays in 0..B-1 whatever is
\* called; nextBlock takes index i to (i+1) mod B and prevBlock to (i-1+B) mod B;
\* nextBlock then prevBlock restores the index and B calls of nextBlock in a
\* row come back to the block they started from; a scan of a text that is not
\* blank sets the index to 0; loadBlockByIndex with an index outside 0..B-1
\* changes nothing.
C23_BlockIndexWraps ==
    [][/\ Len(flashcardBlocks') >= 1 =>
              currentBlockIndex' \in 0..(Len(flashcardBlocks') - 1)
       /\ (op' = "nextBlock" /\ B >= 1) =>
              currentBlockIndex' = (currentBlockIndex + 1) % B
       /\ (op' = "prevBlock" /\ B >= 1) =>
              currentBlockIndex' = (currentBlockIndex - 1 + B) % B
       /\ (op' = "prevBlock" /\ B >= 1 /\ trail # null /\ Val(trail).count >= 1) =>
              currentBlockIndex' = Val(trail).before
       /\ (op' = "nextBlock" /\ B >= 1 /\ Val(trail').count = B) =>
              currentBlockIndex' = Val(trail').start
       /\ (op' \in {"scanForBlocks", "pasteAndScanBlocks"}
             /\ alert' \in {NoAlert, NoBlocksFound}) =>
              currentBlockIndex' = 0
       /\ (op' = "loadBlockByIndex" /\ Val(Val(trail').arg) \notin 0..(B - 1)) =>
              UNCHANGED <<flashcardBlocks, currentBlockIndex, pasteInput,
                          blockCounter, blockTitle, currentSetName, timers,
                          currentFlashcards>>]_vars

\* three calls of nextBlock in a row over three blocks have come back to the
\* block in the middle, where they started
C23_Witness ==
    /\ op = "nextBlock"
    /\ Len(flashcardBlocks) = 3
    /\ trail # null
    /\ Val(trail).count = 3
    /\ Val(trail).start = 1
    /\ currentBlockIndex = 1

-----------------------------------------------------------------------------
(* C24 *)

\* C24: when the last read of a batch ends, whatever the reads ended with and
\* in whatever order, the callbacks of the batch have updated the dropdown
\* exactly once, and the content of the last file of the batch, when it has
\* one, is the current flashcard set.
C24_BatchLoadsLastFile ==
    [][\A b \in 1..Len(batches) :
          (op' = "fileRead" /\ batches[b].pending # {} /\ batches'[b].pending = {}) =>
              LET batch   == batches'[b]
                  last    == Len(batch.files)
                  content == IF batch.results[last] = null THEN <<>>
                             ELSE trim(Val(batch.results[last]))
              IN  /\ batch.updates = 1
                  /\ dropdown' = DOMAIN tempFlashcardDatabase'
                  /\ content # <<>> =>
                         /\ currentSetName' = Some(removeExtension(batch.files[last].name))
                         /\ currentFlashcards' = commaCards(filledLines(content))]_vars

-----------------------------------------------------------------------------
(* C25 *)

\* C25: a drop that chess.js rejects returns 'snapback' and leaves the engine,
\* the PGN textarea, the current-position textarea and window.startingFen as
\* they were; a drop changes any of them only when chess.js accepted it, and
\* then it adds one move to the engine.
C25_RejectedDropChangesNothing ==
    [][op' = "onDrop" =>
          /\ (chess' = chess) <=> (returned' = Some("snapback"))
          /\ returned' = Some("snapback") =>
                 UNCHANGED <<chess, moveHistoryTextArea, myTextArea2, startingFen, board>>
          /\ (<<chess, moveHistoryTextArea, myTextArea2, startingFen>>' #
                 <<chess, moveHistoryTextArea, myTextArea2, startingFen>>) =>
                 /\ returned' = null
                 /\ Len(chess'.history) = Len(chess.history) + 1
                 /\ chess'.turn # chess.turn]_vars

\* a drop has been rejected after a reset and a move
C25_Witness ==
    /\ op = "onDrop"
    /\ returned = Some("snapback")
    /\ startingFen # null
    /\ moveHistoryTextArea # <<>>
    /\ myTextArea2 # <<>>
    /\ chess.history # <<>>

-----------------------------------------------------------------------------
(* C26 *)

\* the moves of a PGN text, without their numbers
sanOf(text) == SelectSeq(text, LAMBDA token : token \in {"e4", "e5"})

\* the FENs that the last Load FEN may be said to have loaded: the standard
\* one when there was none, else the one of its input and the one of its
\* fallback
loadedFens ==
    IF lastLoad = null THEN {StandardFen}
    ELSE {Val(lastLoad),
          positionPart(Val(lastLoad)) \o <<" ", "w", " ", "KQkq", " ", "-", " ", "0", " ", "1">>}

\* C26: the PGN shown after a legal move has the FEN of the last load in its
\* FEN header (the standard start after a reset and before any load) and lists
\* exactly the moves accepted since that load or reset; the current-position
\* textarea shows the position of the engine after the move; a Load FEN of an
\* input that is not blank and a Reset Board empty the PGN textarea.
C26_PgnFollowsLastLoad ==
    [][/\ (op' = "onDrop" /\ returned' = null) =>
              /\ fenStringOf(moveHistoryTextArea') \in loadedFens
              /\ sanOf(moveHistoryTextArea') = played'
              /\ myTextArea2' = fenVariant(fenOf(chess'))
       /\ ((op' = "loadFenVariantOnBoard" /\ alert' = NoAlert) \/ op' = "resetBoard") =>
              moveHistoryTextArea' = <<>>]_vars

-----------------------------------------------------------------------------
(* C27 *)

\* C27: after a Load FEN of an input that is not blank the engine holds the
\* placement that the board shows, window.startingFen is the FEN of the
\* engine, and the current-position textarea shows that FEN, with the input
\* taken as it is and with the fallback.
C27_LoadSyncsEngine ==
    [][(op' = "loadFenVariantOnBoard" /\ alert' = NoAlert) =>
          /\ chess'.placement = board'
          /\ startingFen' = Some(fenOf(chess'))
          /\ myTextArea2' = fenVariant(fenOf(chess'))]_vars

====
